---- MODULE Spec2Model ----
(***************************************************************************)
(* Model of the travel-plan validator (validation_agent.py).               *)
(*                                                                         *)
(* Units.  Money is kept in whole currency units (integers).  Wall-clock   *)
(* times are the "HH:MM" strings of the source, kept as sequences of       *)
(* one-character strings and parsed by strptime below.  duration_hours is  *)
(* kept in minutes (duration_hours * 60), so a buffer of 0.5 hours is 30   *)
(* minutes.  For integer amounts the double-precision comparisons of the   *)
(* budget check agree with the exact ones; the cost-distribution check     *)
(* rounds at the boundary, see ExceedsVariance.                            *)
(*                                                                         *)
(* A Python call either returns a value or raises: every check returns a   *)
(* record [raised |-> exception name or NoException, issues |-> ...].      *)
(***************************************************************************)
EXTENDS Integers, Sequences, FiniteSets, TLC

VARIABLES plans, user_requirements, validation_results, pc, idx, exception,
          current_session, refinement_history, session_files, user_feedback,
          clock, initial_plan, current_plan, iteration, max_iterations

\* the state of the orchestrator, its refinement agent and the data directory
orchestrator ==
    <<current_session, refinement_history, session_files, user_feedback,
      clock>>

\* the plan given to interactive_refinement_session, its max_iterations and
\* its locals
interactive == <<initial_plan, current_plan, iteration, max_iterations>>

vars ==
    <<plans, user_requirements, validation_results, pc, idx, exception,
      orchestrator, interactive>>

-----------------------------------------------------------------------------
(* Bounds of the model                                                     *)

MaxBatch == 3
MaxDays == 2
MaxActs == 2
MaxDailyLen == 9
MaxClock == 3
MaxIterations == 2

-----------------------------------------------------------------------------
(* Thresholds of ValidationAgent                                           *)

MAX_DAILY_ACTIVITIES == 8
MIN_DAILY_ACTIVITIES == 3
MAX_DAILY_COST_VARIANCE_PCT == 40
MIN_TIME_BETWEEN_ACTIVITIES_MIN == 30
MAX_ACTIVITY_DURATION == 6
BUDGET_TOLERANCE_PCT == 10
BASE_SCORE == 100
MAX_DAILY_HOURS == 12
MIN_DAILY_HOURS == 4
MAX_DINING == 4

-----------------------------------------------------------------------------
(* Python values                                                           *)

\* a str, a number and None; the tag is what type(v) returns
Str(chars) == [type |-> "str", value |-> chars]
Num(n) == [type |-> "number", value |-> n]
List(items) == [type |-> "list", value |-> items]
None == [type |-> "NoneType", value |-> 0]

NoException == "NoException"

\* dict.get(key, default)
DictGet(d, key, default) == IF key \in DOMAIN d THEN d[key] ELSE default

Returns(iss) == [raised |-> NoException, issues |-> iss]
Raises(e) == [raised |-> e, issues |-> <<>>]

IsNumber(v) == v.type = "number"

Digits == <<"0", "1", "2", "3", "4", "5", "6", "7", "8", "9">>

IsDigit(c) == \E d \in 1..10 : Digits[d] = c

DigitVal(c) == (CHOOSE d \in 1..10 : Digits[d] = c) - 1

\* "%02d:%02d" % (h, m)
HHMM(h, m) ==
    <<Digits[(h \div 10) + 1], Digits[(h % 10) + 1], ":",
      Digits[(m \div 10) + 1], Digits[(m % 10) + 1]>>

\* value of a run of one or two digits
NumVal(s) ==
    IF Len(s) = 1 THEN DigitVal(s[1]) ELSE 10 * DigitVal(s[1]) + DigitVal(s[2])

\* %H: 2[0-3] | [0-1]\d | \d
MatchesH(s) ==
    /\ Len(s) \in {1, 2}
    /\ \A k \in 1..Len(s) : IsDigit(s[k])
    /\ NumVal(s) <= 23

\* %M: [0-5]\d | \d
MatchesM(s) ==
    /\ Len(s) \in {1, 2}
    /\ \A k \in 1..Len(s) : IsDigit(s[k])
    /\ NumVal(s) <= 59

\* positions of s at which the format's ':' can match
ColonSplits(s) ==
    {k \in 1..Len(s) :
        /\ s[k] = ":"
        /\ MatchesH(SubSeq(s, 1, k - 1))
        /\ MatchesM(SubSeq(s, k + 1, Len(s)))}

\* datetime.strptime(t, "%H:%M"): minutes after midnight, or the exception
strptime(t) ==
    IF t.type # "str" THEN [raised |-> "TypeError", minutes |-> 0]
    ELSE IF ColonSplits(t.value) = {}
    THEN [raised |-> "ValueError", minutes |-> 0]
    ELSE LET s == t.value
             k == CHOOSE j \in ColonSplits(s) : TRUE
         IN [raised |-> NoException,
             minutes |-> 60 * NumVal(SubSeq(s, 1, k - 1))
                         + NumVal(SubSeq(s, k + 1, Len(s)))]

\* str.lower() on ASCII letters
UpperLetters ==
    <<"A", "B", "C", "D", "E", "F", "G", "H", "I", "J", "K", "L", "M", "N",
      "O", "P", "Q", "R", "S", "T", "U", "V", "W", "X", "Y", "Z">>

LowerLetters ==
    <<"a", "b", "c", "d", "e", "f", "g", "h", "i", "j", "k", "l", "m", "n",
      "o", "p", "q", "r", "s", "t", "u", "v", "w", "x", "y", "z">>

LowerChar(c) ==
    IF \E k \in 1..Len(UpperLetters) : UpperLetters[k] = c
    THEN LowerLetters[CHOOSE k \in 1..Len(UpperLetters) : UpperLetters[k] = c]
    ELSE c

Lower(s) == [k \in 1..Len(s) |-> LowerChar(s[k])]

\* needle in s
Contains(s, needle) ==
    \E k \in 0..(Len(s) - Len(needle)) :
        SubSeq(s, k + 1, k + Len(needle)) = needle

Museum == <<"m", "u", "s", "e", "u", "m">>

RECURSIVE SumSeq(_)
SumSeq(s) == IF s = <<>> THEN 0 ELSE s[1] + SumSeq(Tail(s))

RECURSIVE Concat(_)
Concat(ss) == IF ss = <<>> THEN <<>> ELSE ss[1] \o Concat(Tail(ss))

Names(acts) == [k \in 1..Len(acts) |-> acts[k].name]

ValidationIssue(sev, cat, day, prob, sugg, affected) ==
    [severity |-> sev, category |-> cat, day_number |-> day,
     problem |-> prob, suggestion |-> sugg, affected_activities |-> affected]

ValidationResult(id, st, iss, warns, sc) ==
    [plan_id |-> id, status |-> st, issues |-> iss, warnings |-> warns,
     score |-> sc]

-----------------------------------------------------------------------------
(* The rule checks of ValidationAgent                                      *)

\* the issues of a run of steps executed in order; the first step that raises
\* ends the run and its exception propagates
RECURSIVE Gather(_)
Gather(rs) ==
    IF rs = <<>> THEN Returns(<<>>)
    ELSE IF rs[1].raised # NoException THEN Raises(rs[1].raised)
    ELSE LET rest == Gather(Tail(rs))
         IN IF rest.raised # NoException THEN rest
            ELSE Returns(rs[1].issues \o rest.issues)

\* the days a loop over plan.daily_plans visits
DaysOf(plan) ==
    IF plan.daily_plans.type = "list" THEN plan.daily_plans.value ELSE <<>>

\* for day in plan.daily_plans, with the outcome of the body for each day:
\* iterating None raises TypeError
ForEachDay(plan, bodies) ==
    IF plan.daily_plans.type # "list" THEN Raises("TypeError")
    ELSE Gather(bodies)

\* the budget check with both thresholds inclusive
_validate_budget_inclusive(plan, reqs) ==
    LET user_budget == DictGet(reqs, "budget", 0)
        plan_cost == plan.total_cost
        over_amount == plan_cost - user_budget
    IN IF plan_cost * 100 >= user_budget * (100 + BUDGET_TOLERANCE_PCT)
       THEN IF user_budget = 0 THEN Raises("ZeroDivisionError")
            ELSE Returns(<<ValidationIssue("critical", "budget", None,
                     <<"Total cost exceeds budget", plan_cost, user_budget,
                       over_amount>>,
                     <<"Reduce or increase budget by", over_amount>>, <<>>)>>)
       ELSE IF plan_cost * 10 < user_budget * 6
       THEN IF user_budget = 0 THEN Raises("ZeroDivisionError")
            ELSE Returns(<<ValidationIssue("low", "budget", None,
                     <<"Plan only uses part of budget", plan_cost,
                       user_budget>>,
                     <<"Consider upgrading">>, <<>>)>>)
       ELSE Returns(<<>>)

\* the budget check with the under-use threshold inclusive
_validate_budget_underuse(plan, reqs) ==
    LET user_budget == DictGet(reqs, "budget", 0)
        plan_cost == plan.total_cost
        over_amount == plan_cost - user_budget
    IN IF plan_cost * 100 > user_budget * (100 + BUDGET_TOLERANCE_PCT)
       THEN IF user_budget = 0 THEN Raises("ZeroDivisionError")
            ELSE Returns(<<ValidationIssue("critical", "budget", None,
                     <<"Total cost exceeds budget", plan_cost, user_budget,
                       over_amount>>,
                     <<"Reduce or increase budget by", over_amount>>, <<>>)>>)
       ELSE IF plan_cost * 10 <= user_budget * 6
       THEN IF user_budget = 0 THEN Raises("ZeroDivisionError")
            ELSE Returns(<<ValidationIssue("low", "budget", None,
                     <<"Plan only uses part of budget", plan_cost,
                       user_budget>>,
                     <<"Consider upgrading">>, <<>>)>>)
       ELSE Returns(<<>>)

\* the budget check reporting an issue where the percentage divides by zero
_validate_budget_undivided(plan, reqs) ==
    LET user_budget == DictGet(reqs, "budget", 0)
        plan_cost == plan.total_cost
        over_amount == plan_cost - user_budget
    IN IF plan_cost * 100 > user_budget * (100 + BUDGET_TOLERANCE_PCT)
       THEN Returns(<<ValidationIssue("critical", "budget", None,
                     <<"Total cost exceeds budget", plan_cost, user_budget,
                       over_amount>>,
                     <<"Reduce or increase budget by", over_amount>>, <<>>)>>)
       ELSE IF plan_cost * 10 < user_budget * 6
       THEN Returns(<<ValidationIssue("low", "budget", None,
                     <<"Plan only uses part of budget", plan_cost,
                       user_budget>>,
                     <<"Consider upgrading">>, <<>>)>>)
       ELSE Returns(<<>>)

_validate_budget(plan, reqs) ==
    LET user_budget == DictGet(reqs, "budget", 0)
        plan_cost == plan.total_cost
        over_amount == plan_cost - user_budget
    IN IF plan_cost * 100 > user_budget * (100 + BUDGET_TOLERANCE_PCT)
       THEN IF user_budget = 0 THEN Raises("ZeroDivisionError")
            ELSE Returns(<<ValidationIssue("critical", "budget", None,
                     <<"Total cost exceeds budget", plan_cost, user_budget,
                       over_amount>>,
                     <<"Reduce or increase budget by", over_amount>>, <<>>)>>)
       ELSE IF plan_cost * 10 < user_budget * 6
       THEN IF user_budget = 0 THEN Raises("ZeroDivisionError")
            ELSE Returns(<<ValidationIssue("low", "budget", None,
                     <<"Plan only uses part of budget", plan_cost,
                       user_budget>>,
                     <<"Consider upgrading">>, <<>>)>>)
       ELSE Returns(<<>>)

\* the count branch with the upper limit inclusive
TimingCountInclusive(day) ==
    LET activities == day.activities
    IN IF Len(activities) >= MAX_DAILY_ACTIVITIES
       THEN Returns(<<ValidationIssue("high", "timing", Num(day.day_number),
                <<"Day has activities (max recommended)", day.day_number,
                  Len(activities), MAX_DAILY_ACTIVITIES>>,
                <<"Remove or combine some activities">>, Names(activities))>>)
       ELSE IF Len(activities) < MIN_DAILY_ACTIVITIES
       THEN Returns(<<ValidationIssue("low", "timing", Num(day.day_number),
                <<"Day only has activities", day.day_number,
                  Len(activities)>>,
                <<"Consider adding more experiences">>, Names(activities))>>)
       ELSE Returns(<<>>)

\* the count branch of the timing check, for one day
TimingCount(day) ==
    LET activities == day.activities
    IN IF Len(activities) > MAX_DAILY_ACTIVITIES
       THEN Returns(<<ValidationIssue("high", "timing", Num(day.day_number),
                <<"Day has activities (max recommended)", day.day_number,
                  Len(activities), MAX_DAILY_ACTIVITIES>>,
                <<"Remove or combine some activities">>, Names(activities))>>)
       ELSE IF Len(activities) < MIN_DAILY_ACTIVITIES
       THEN Returns(<<ValidationIssue("low", "timing", Num(day.day_number),
                <<"Day only has activities", day.day_number,
                  Len(activities)>>,
                <<"Consider adding more experiences">>, Names(activities))>>)
       ELSE Returns(<<>>)

\* the pair iteration with a buffer of exactly 30 minutes counted as too short
TimingPairInclusive(day, i) ==
    LET current == day.activities[i]
        next_activity == day.activities[i + 1]
        current_time == strptime(current.time)
        next_time == strptime(next_activity.time)
    IN IF current_time.raised # NoException THEN Raises(current_time.raised)
       ELSE IF next_time.raised # NoException THEN Raises(next_time.raised)
       ELSE LET current_end == current_time.minutes + current.duration_hours
                buffer_time == next_time.minutes - current_end
                pair == <<current.name, next_activity.name>>
            IN Returns(
                (IF buffer_time <= MIN_TIME_BETWEEN_ACTIVITIES_MIN
                 THEN <<ValidationIssue("high", "timing", Num(day.day_number),
                          <<"Only minutes between", buffer_time, current.name,
                            next_activity.name>>,
                          <<"Add at least 30 minutes buffer">>, pair)>>
                 ELSE <<>>)
                \o
                (IF buffer_time < 0
                 THEN <<ValidationIssue("critical", "timing",
                          Num(day.day_number),
                          <<"Activities overlap", current.name,
                            next_activity.name>>,
                          <<"Reschedule one of these activities">>, pair)>>
                 ELSE <<>>))

\* one iteration of the loop over consecutive activities
TimingPair(day, i) ==
    LET current == day.activities[i]
        next_activity == day.activities[i + 1]
        current_time == strptime(current.time)
        next_time == strptime(next_activity.time)
    IN IF current_time.raised # NoException THEN Raises(current_time.raised)
       ELSE IF next_time.raised # NoException THEN Raises(next_time.raised)
       ELSE LET current_end == current_time.minutes + current.duration_hours
                buffer_time == next_time.minutes - current_end
                pair == <<current.name, next_activity.name>>
            IN Returns(
                (IF buffer_time < MIN_TIME_BETWEEN_ACTIVITIES_MIN
                 THEN <<ValidationIssue("high", "timing", Num(day.day_number),
                          <<"Only minutes between", buffer_time, current.name,
                            next_activity.name>>,
                          <<"Add at least 30 minutes buffer">>, pair)>>
                 ELSE <<>>)
                \o
                (IF buffer_time < 0
                 THEN <<ValidationIssue("critical", "timing",
                          Num(day.day_number),
                          <<"Activities overlap", current.name,
                            next_activity.name>>,
                          <<"Reschedule one of these activities">>, pair)>>
                 ELSE <<>>))


\* the loop for long activities with a duration of exactly the maximum flagged
TimingLongInclusive(day) ==
    LET activities == day.activities
        One(a) ==
            IF a.duration_hours >= MAX_ACTIVITY_DURATION * 60
            THEN <<ValidationIssue("medium", "timing", Num(day.day_number),
                     <<"Activity is scheduled for hours", a.name,
                       a.duration_hours>>,
                     <<"Consider splitting">>, <<a.name>>)>>
            ELSE <<>>
    IN Returns(Concat([k \in 1..Len(activities) |-> One(activities[k])]))

\* the loop over the activities of one day for unreasonably long ones
TimingLong(day) ==
    LET activities == day.activities
        One(a) ==
            IF a.duration_hours > MAX_ACTIVITY_DURATION * 60
            THEN <<ValidationIssue("medium", "timing", Num(day.day_number),
                     <<"Activity is scheduled for hours", a.name,
                       a.duration_hours>>,
                     <<"Consider splitting">>, <<a.name>>)>>
            ELSE <<>>
    IN Returns(Concat([k \in 1..Len(activities) |-> One(activities[k])]))

TimingDay(day) ==
    Gather(<<TimingCount(day)>>
           \o [i \in 1..(Len(day.activities) - 1) |-> TimingPair(day, i)]
           \o <<TimingLong(day)>>)

_validate_timing(plan) ==
    ForEachDay(plan, [d \in 1..Len(DaysOf(plan)) |-> TimingDay(DaysOf(plan)[d])])

\* the balance check with a day of exactly 12 hours counted as overloaded
BalanceDayInclusive(day) ==
    LET acts == day.activities
        total_hours == SumSeq([k \in 1..Len(acts) |-> acts[k].duration_hours])
        dining == SelectSeq(acts, LAMBDA a : a.category = "dining")
    IN Returns(
        (IF total_hours >= MAX_DAILY_HOURS * 60
         THEN <<ValidationIssue("high", "logistics", Num(day.day_number),
                  <<"Day has hours of activities (over 12 hours)",
                    day.day_number, total_hours>>,
                  <<"Reduce number of activities">>, Names(acts))>>
         ELSE IF total_hours < MIN_DAILY_HOURS * 60
         THEN <<ValidationIssue("low", "logistics", Num(day.day_number),
                  <<"Day only has hours of activities", day.day_number,
                    total_hours>>,
                  <<"Add more activities">>, Names(acts))>>
         ELSE <<>>)
        \o
        (IF Len(dining) > MAX_DINING
         THEN <<ValidationIssue("low", "logistics", Num(day.day_number),
                  <<"Day has too many dining activities", day.day_number>>,
                  <<"Balance with more sightseeing">>, Names(dining))>>
         ELSE <<>>))

BalanceDay(day) ==
    LET acts == day.activities
        total_hours == SumSeq([k \in 1..Len(acts) |-> acts[k].duration_hours])
        dining == SelectSeq(acts, LAMBDA a : a.category = "dining")
    IN Returns(
        (IF total_hours > MAX_DAILY_HOURS * 60
         THEN <<ValidationIssue("high", "logistics", Num(day.day_number),
                  <<"Day has hours of activities (over 12 hours)",
                    day.day_number, total_hours>>,
                  <<"Reduce number of activities">>, Names(acts))>>
         ELSE IF total_hours < MIN_DAILY_HOURS * 60
         THEN <<ValidationIssue("low", "logistics", Num(day.day_number),
                  <<"Day only has hours of activities", day.day_number,
                    total_hours>>,
                  <<"Add more activities">>, Names(acts))>>
         ELSE <<>>)
        \o
        (IF Len(dining) > MAX_DINING
         THEN <<ValidationIssue("low", "logistics", Num(day.day_number),
                  <<"Day has too many dining activities", day.day_number>>,
                  <<"Balance with more sightseeing">>, Names(dining))>>
         ELSE <<>>))

_validate_daily_balance(plan) ==
    ForEachDay(plan, [d \in 1..Len(DaysOf(plan)) |-> BalanceDay(DaysOf(plan)[d])])

\* the feasibility tests with a zero cost counted as negative
FeasibilityActivityInclusive(day, activity) ==
    LET cost == activity.estimated_cost
    IN IF ~IsNumber(cost) THEN Raises("TypeError")
       ELSE Returns(
            (IF cost.value <= 0
             THEN <<ValidationIssue("critical", "budget", Num(day.day_number),
                      <<"Activity has negative cost", activity.name,
                        cost.value>>,
                      <<"Correct the cost estimate">>, <<activity.name>>)>>
             ELSE <<>>)
            \o
            (IF cost.value = 0 /\ Contains(Lower(activity.name), Museum)
             THEN <<ValidationIssue("medium", "budget", Num(day.day_number),
                      <<"Activity listed as free but may require admission",
                        activity.name>>,
                      <<"Verify if entrance fee is required">>,
                      <<activity.name>>)>>
             ELSE <<>>))

\* the two tests of the feasibility check on one activity; ordering a str or
\* None against 0 raises TypeError
FeasibilityActivity(day, activity) ==
    LET cost == activity.estimated_cost
    IN IF ~IsNumber(cost) THEN Raises("TypeError")
       ELSE Returns(
            (IF cost.value < 0
             THEN <<ValidationIssue("critical", "budget", Num(day.day_number),
                      <<"Activity has negative cost", activity.name,
                        cost.value>>,
                      <<"Correct the cost estimate">>, <<activity.name>>)>>
             ELSE <<>>)
            \o
            (IF cost.value = 0 /\ Contains(Lower(activity.name), Museum)
             THEN <<ValidationIssue("medium", "budget", Num(day.day_number),
                      <<"Activity listed as free but may require admission",
                        activity.name>>,
                      <<"Verify if entrance fee is required">>,
                      <<activity.name>>)>>
             ELSE <<>>))

FeasibilityDay(day) ==
    Gather([k \in 1..Len(day.activities) |->
                FeasibilityActivity(day, day.activities[k])])

_validate_activity_feasibility(plan) ==
    ForEachDay(plan, [d \in 1..Len(DaysOf(plan)) |-> FeasibilityDay(DaysOf(plan)[d])])

RECURSIVE Log2Floor(_)
Log2Floor(n) == IF n < 2 THEN 0 ELSE 1 + Log2Floor(n \div 2)

RECURSIVE Pow2(_)
Pow2(e) == IF e = 0 THEN 1 ELSE 2 * Pow2(e - 1)

\* day_cost > (total / n) * (1 + 0.4) in double precision.  1 + 0.4 is the
\* double just below 1.4, so when day_cost is exactly 1.4 times the average
\* the product rounds below day_cost once day_cost's significand exceeds 1.75
ExceedsVariance(day_cost, total, n) ==
    \/ day_cost * 100 * n > total * (100 + MAX_DAILY_COST_VARIANCE_PCT)
    \/ /\ day_cost * 100 * n = total * (100 + MAX_DAILY_COST_VARIANCE_PCT)
       /\ day_cost > 0
       /\ day_cost * 4 > 7 * Pow2(Log2Floor(day_cost))

_validate_cost_distribution(plan) ==
    IF plan.daily_plans.type # "list" \/ plan.daily_plans.value = <<>>
    THEN Returns(<<>>)
    ELSE LET days == plan.daily_plans.value
             daily_costs == [d \in 1..Len(days) |-> days[d].total_cost]
             total == SumSeq(daily_costs)
             One(day) ==
                 IF ExceedsVariance(day.total_cost, total, Len(days))
                 THEN <<ValidationIssue("low", "budget", Num(day.day_number),
                          <<"Day cost is above average", day.day_number,
                            day.total_cost, Len(days), total>>,
                          <<"Consider redistributing expensive activities">>,
                          <<>>)>>
                 ELSE <<>>
         IN Returns(Concat([d \in 1..Len(days) |-> One(days[d])]))

\* the warnings pass with the source warning also at exactly half
_check_warnings_inclusive(plan) ==
    IF plan.daily_plans.type # "list" THEN Raises("TypeError")
    ELSE
    LET days == plan.daily_plans.value
        total_activities == SumSeq([d \in 1..Len(days) |->
                                        Len(days[d].activities)])
        activities_with_sources ==
            SumSeq([d \in 1..Len(days) |->
                Len(SelectSeq(days[d].activities, LAMBDA a : a.source # ""))])
    IN Returns(
        (IF plan.accommodation = None
            \/ DictGet(plan.accommodation, "name", "") = ""
         THEN <<<<"No specific accommodation recommended">>>> ELSE <<>>)
        \o
        (IF plan.transportation = None
            \/ DictGet(plan.transportation, "daily", "") = ""
         THEN <<<<"Transportation details are minimal">>>> ELSE <<>>)
        \o
        (IF activities_with_sources * 2 <= total_activities
         THEN <<<<"Only activities have source attribution",
                  activities_with_sources, total_activities>>>>
         ELSE <<>>))

\* the warnings pass; its strings are returned in the issues field
_check_warnings(plan) ==
    IF plan.daily_plans.type # "list" THEN Raises("TypeError")
    ELSE
    LET days == plan.daily_plans.value
        total_activities == SumSeq([d \in 1..Len(days) |->
                                        Len(days[d].activities)])
        activities_with_sources ==
            SumSeq([d \in 1..Len(days) |->
                Len(SelectSeq(days[d].activities, LAMBDA a : a.source # ""))])
    IN Returns(
        (IF plan.accommodation = None
            \/ DictGet(plan.accommodation, "name", "") = ""
         THEN <<<<"No specific accommodation recommended">>>> ELSE <<>>)
        \o
        (IF plan.transportation = None
            \/ DictGet(plan.transportation, "daily", "") = ""
         THEN <<<<"Transportation details are minimal">>>> ELSE <<>>)
        \o
        (IF activities_with_sources * 2 < total_activities
         THEN <<<<"Only activities have source attribution",
                  activities_with_sources, total_activities>>>>
         ELSE <<>>))

\* the penalties with nothing deducted for a low issue
PenaltiesWithoutLow == [critical |-> 20, high |-> 10, medium |-> 5, low |-> 0]

severity_penalties == [critical |-> 20, high |-> 10, medium |-> 5, low |-> 2]

Max(a, b) == IF a >= b THEN a ELSE b

\* the score without the floor at 0
ScoreUnclamped(plan, issues) ==
    BASE_SCORE
    - SumSeq([k \in 1..Len(issues) |->
                 DictGet(severity_penalties, issues[k].severity, 0)])

\* the score with each severity penalised once, however many issues carry it
ScoreBySeverityPresent(plan, issues) ==
    LET present == {issues[k].severity : k \in 1..Len(issues)}
        Penalty(sev) == IF sev \in present THEN severity_penalties[sev] ELSE 0
    IN Max(0, BASE_SCORE - Penalty("critical") - Penalty("high")
                         - Penalty("medium") - Penalty("low"))

\* the score with three points taken off for every warning
ScoreMinusWarnings(plan, issues) ==
    LET pass == _check_warnings(plan)
        warnings == IF pass.raised = NoException THEN pass.issues ELSE <<>>
    IN Max(0, BASE_SCORE
              - SumSeq([k \in 1..Len(issues) |->
                           DictGet(severity_penalties, issues[k].severity, 0)])
              - 3 * Len(warnings))

_calculate_quality_score(plan, issues) ==
    Max(0, BASE_SCORE
           - SumSeq([k \in 1..Len(issues) |->
                        DictGet(severity_penalties, issues[k].severity, 0)]))

\* the status read off the penalties instead of the severities
DetermineStatusByPenalty(issues) ==
    LET lost == SumSeq([k \in 1..Len(issues) |->
                           DictGet(severity_penalties, issues[k].severity, 0)])
    IN IF lost >= 20 THEN "NEEDS_REVISION"
       ELSE IF lost >= 10 THEN "APPROVED_WITH_WARNINGS"
       ELSE "APPROVED"

\* the status branch of _validate_single_plan
DetermineStatus(issues) ==
    LET critical_issues == SelectSeq(issues, LAMBDA i : i.severity = "critical")
        high_issues == SelectSeq(issues, LAMBDA i : i.severity = "high")
    IN IF critical_issues # <<>> THEN "NEEDS_REVISION"
       ELSE IF high_issues # <<>> THEN "APPROVED_WITH_WARNINGS"
       ELSE "APPROVED"

NoResult == ValidationResult("", "", <<>>, <<>>, 0)

\* validation with the feasibility check run before the timing check
_validate_single_plan_reordered(plan, reqs) ==
    LET checks == Gather(<<_validate_budget(plan, reqs),
                           _validate_activity_feasibility(plan),
                           _validate_timing(plan),
                           _validate_daily_balance(plan),
                           _validate_cost_distribution(plan)>>)
        warnings == _check_warnings(plan)
    IN IF checks.raised # NoException
       THEN [raised |-> checks.raised, result |-> NoResult]
       ELSE IF warnings.raised # NoException
       THEN [raised |-> warnings.raised, result |-> NoResult]
       ELSE [raised |-> NoException,
             result |-> ValidationResult(plan.plan_id,
                            DetermineStatus(checks.issues), checks.issues,
                            warnings.issues,
                            _calculate_quality_score(plan, checks.issues))]

_validate_single_plan(plan, reqs) ==
    LET checks == Gather(<<_validate_budget(plan, reqs),
                           _validate_timing(plan),
                           _validate_daily_balance(plan),
                           _validate_activity_feasibility(plan),
                           _validate_cost_distribution(plan)>>)
        warnings == _check_warnings(plan)
    IN IF checks.raised # NoException
       THEN [raised |-> checks.raised, result |-> NoResult]
       ELSE IF warnings.raised # NoException
       THEN [raised |-> warnings.raised, result |-> NoResult]
       ELSE [raised |-> NoException,
             result |-> ValidationResult(plan.plan_id,
                            DetermineStatus(checks.issues), checks.issues,
                            warnings.issues,
                            _calculate_quality_score(plan, checks.issues))]

-----------------------------------------------------------------------------
(* The itineraries the validator is run on                                 *)

Activity(time, name, estimated_cost, duration_hours, category, source) ==
    [time |-> time, name |-> name, estimated_cost |-> estimated_cost,
     duration_hours |-> duration_hours, category |-> category,
     source |-> source]

\* total_cost of a day as _parse_plan_json accumulates it
DayCost(acts) ==
    SumSeq([k \in 1..Len(acts) |->
              IF IsNumber(acts[k].estimated_cost)
              THEN acts[k].estimated_cost.value ELSE 0])

DayPlan(day_number, activities) ==
    [day_number |-> day_number, activities |-> activities,
     total_cost |-> DayCost(activities)]

\* the cost_breakdown of the plan the workflow test validates
MockBreakdown ==
    [activities |-> 500, accommodation |-> 300, transportation |-> 200]

TravelPlan(plan_id, total_cost, daily_plans, accommodation, transportation) ==
    [plan_id |-> plan_id, total_cost |-> total_cost,
     cost_breakdown |-> MockBreakdown,
     daily_plans |-> daily_plans, accommodation |-> accommodation,
     transportation |-> transportation, pace |-> "moderate"]

Tower ==
    Activity(Str(HHMM(9, 0)), <<"T", "o", "w", "e", "r">>, Num(25), 120,
             "sightseeing", "Test")
Louvre ==
    Activity(Str(HHMM(10, 30)), <<"M", "U", "S", "E", "U", "M">>, Num(0), 120,
             "culture", "")
Lunch ==
    Activity(Str(HHMM(11, 15)), <<"L", "u", "n", "c", "h">>, Num(30), 60,
             "dining", "")
Cruise ==
    Activity(Str(HHMM(11, 30)), <<"C", "r", "u", "i", "s", "e">>, Num(15), 60,
             "sightseeing", "Test")
Versailles ==
    Activity(Str(HHMM(13, 0)), <<"T", "r", "i", "p">>, Num(60), 420,
             "culture", "Test")
BadTime ==
    Activity(Str(<<"2", "5", ":", "0", "0">>), <<"S", "h", "o", "w">>,
             Num(10), 60, "culture", "")
NoTime ==
    Activity(None, <<"W", "a", "l", "k">>, Num(0), 60, "sightseeing", "")
BadCost ==
    Activity(Str(HHMM(15, 0)), <<"T", "o", "u", "r">>,
             Str(<<"f", "r", "e", "e">>), 60, "culture", "Test")
Refund ==
    Activity(Str(HHMM(17, 0)), <<"R", "e", "f", "u", "n", "d">>, Num(-5), 60,
             "culture", "")

ActivityLib ==
    {Tower, Louvre, Lunch, Cruise, Versailles, BadTime, NoTime, BadCost,
     Refund}

\* n one-hour activities from 08:00, 30 minutes apart
Spaced(n) ==
    [k \in 1..n |->
        Activity(Str(HHMM((480 + 90 * (k - 1)) \div 60,
                          (480 + 90 * (k - 1)) % 60)),
                 <<"S", Digits[(k \div 10) + 1], Digits[(k % 10) + 1]>>,
                 Num(20), 60, "sightseeing", "Test")]

\* n two-hour meals, all at 09:00
Stacked(n) ==
    [k \in 1..n |->
        Activity(Str(HHMM(9, 0)),
                 <<"D", Digits[(k \div 10) + 1], Digits[(k % 10) + 1]>>,
                 Num(10), 120, "dining", "")]

SeqsUpTo(S, n) == UNION {[1..m -> S] : m \in 0..n}

ActivityLists ==
    SeqsUpTo(ActivityLib, MaxActs)
    \cup {Spaced(n) : n \in 3..MaxDailyLen}
    \cup {Stacked(n) : n \in 3..MaxDailyLen}

LaterDays == {Spaced(4), Spaced(MAX_DAILY_ACTIVITIES + 1), <<Refund, Louvre>>}

\* the activity lists of the days of a plan, day by day
DayLists ==
    {<<>>} \cup {<<first>> \o rest :
                    first \in ActivityLists,
                    rest \in SeqsUpTo(LaterDays, MaxDays - 1)}

Days(lists) == List([d \in 1..Len(lists) |-> DayPlan(d, lists[d])])

Hotel == [name |-> "Test Hotel", cost_per_night |-> 100, total_nights |-> 3]
Metro == [daily |-> "Metro", estimated_daily_cost |-> 10]

WithBudget(b) == [budget |-> b, duration_days |-> 3]
WithoutBudget == [duration_days |-> 3]

Requirements == {WithoutBudget, WithBudget(0), WithBudget(15), WithBudget(1000)}

TotalCosts == {-5, 0, 8, 9, 16, 17, 599, 600, 1099, 1100, 1101}

\* single plans: every budget case on a few itineraries, and every itinerary
\* under and over a budget of 1000
SinglePlanInputs ==
    {<<TravelPlan("TEST", c, Days(dl), Hotel, Metro), r>> :
        c \in TotalCosts, r \in Requirements,
        dl \in {<<>>, <<Spaced(4)>>, <<<<Tower, Louvre>>>>}}
    \cup
    {<<TravelPlan("TEST", c, Days(dl), Hotel, Metro), WithBudget(1000)>> :
        c \in {500, 1000, 1101}, dl \in DayLists}
    \cup
    {<<TravelPlan("TEST", 1000, None, Hotel, Metro), WithBudget(1000)>>}

PlanA == TravelPlan("A", 1000, Days(<<Spaced(4)>>), Hotel, Metro)
PlanB == TravelPlan("B", 1101, Days(<<Spaced(4)>>), Hotel, Metro)
PlanC ==
    TravelPlan("C", 1000,
               Days(<<Spaced(MAX_DAILY_ACTIVITIES + 1),
                      Spaced(MAX_DAILY_ACTIVITIES + 1)>>), Hotel, Metro)
PlanD == TravelPlan("D", 1000, None, Hotel, Metro)
PlanE ==
    TravelPlan("E", 1000, Days(<<<<Tower, Cruise, BadTime, Refund>>>>), Hotel,
               Metro)
PlanF ==
    TravelPlan("F", 1000, Days(<<<<Tower, Cruise, Versailles, BadCost>>>>),
               Hotel, Metro)
PlanG ==
    TravelPlan("G", 1000, Days(<<<<Tower, Louvre, Versailles>>>>), None,
               Metro)

\* the plan with no source on any activity
Unsourced(plan) ==
    [plan EXCEPT !.daily_plans =
        List([d \in 1..Len(@.value) |->
                [@.value[d] EXCEPT !.activities =
                    [k \in 1..Len(@) |-> [@[k] EXCEPT !.source = ""]]]])]

\* the plan with an unnamed accommodation and no daily transportation
Unnamed(plan) ==
    [plan EXCEPT !.accommodation = [@ EXCEPT !.name = ""],
                 !.transportation = [@ EXCEPT !.daily = ""]]

\* a plan validated together with its variants that trigger warnings
WarningBatches ==
    {<<p, Unsourced(p), Unnamed(p)>> :
        p \in {TravelPlan("TEST", 1000, Days(dl), Hotel, Metro) :
                   dl \in DayLists}}


\* a free six-hour activity that is no museum
Park ==
    Activity(Str(HHMM(16, 0)), <<"P", "a", "r", "k">>, Num(0), 360,
             "sightseeing", "Test")
\* museums with an admission and with a negative cost
PaidMuseum ==
    Activity(Str(HHMM(14, 0)), <<"M", "u", "s", "e", "u", "m">>, Num(12), 60,
             "culture", "Test")
NegativeMuseum ==
    Activity(Str(HHMM(12, 0)), <<"m", "u", "s", "e", "u", "m">>, Num(-5), 60,
             "culture", "")

FeasibilityLib == {Park, Louvre, PaidMuseum, NegativeMuseum, Versailles}

\* one day of free, paid and negative-cost activities, alone and followed by
\* a day with a negative-cost museum
FeasibilityDayLists ==
    {<<first>> \o rest :
        first \in SeqsUpTo(FeasibilityLib, MaxActs),
        rest \in {<<>>, <<<<NegativeMuseum, Park>>>>}}

\* one activity of the given cost
Priced(c) ==
    Activity(Str(HHMM(9, 0)), <<"V", "i", "s", "i", "t">>, Num(c), 120,
             "sightseeing", "Test")

DayCosts == {0, 27, 30, 45, 63, 64, 70}

\* days of one activity each, with every combination of the costs
CostDayLists ==
    {[d \in 1..Len(costs) |-> <<Priced(costs[d])>>] :
        costs \in SeqsUpTo(DayCosts, MaxDays)}

CheckInputs ==
    {<<TravelPlan("TEST", 1000, Days(dl), Hotel, Metro), WithBudget(1000)>> :
        dl \in FeasibilityDayLists \cup CostDayLists}

\* a plan that costs nothing, and batches to validate without a budget
PlanFree == TravelPlan("H", 0, Days(<<Spaced(4)>>), Hotel, Metro)

FreeBatches ==
    {<<<<PlanFree, p>>, r>> :
        p \in {PlanFree, PlanA}, r \in {WithoutBudget, WithBudget(0)}}

PlanLib == {PlanA, PlanB, PlanC, PlanD, PlanE, PlanF, PlanG}

Batches == SeqsUpTo(PlanLib, MaxBatch)

-----------------------------------------------------------------------------
(* The planner: create_plans and _parse_plan_json                          *)

\* a call that returns a plan, and one that raises
Built(plan) == [raised |-> NoException, plan |-> plan]
Failed(e) == [raised |-> e, plan |-> None]

\* a response of the language model with its parsed JSON, and a failed call
Answer(json) == [ok |-> TRUE, json |-> json]
NoAnswer == [ok |-> FALSE, json |-> None]

\* id and pace of the three themes
plan_themes ==
    <<[id |-> "A", pace |-> "packed"], [id |-> "B", pace |-> "moderate"],
      [id |-> "C", pace |-> "relaxed"]>>

ActivityKeys ==
    {"time", "name", "estimated_cost", "duration_hours", "category", "source"}

_parse_plan_json(plan_json, theme_config) ==
    IF "daily_plans" \notin DOMAIN plan_json THEN Failed("KeyError")
    ELSE IF plan_json.daily_plans.type # "list" THEN Failed("TypeError")
    ELSE
    LET days == plan_json.daily_plans.value
        HasKeys(day) ==
            /\ {"day_number", "activities"} \subseteq DOMAIN day
            /\ \A k \in 1..Len(day.activities) :
                  ActivityKeys \subseteq DOMAIN day.activities[k]
        Adds(day) ==
            \A k \in 1..Len(day.activities) :
                IsNumber(day.activities[k].estimated_cost)
        Activities(day) ==
            [k \in 1..Len(day.activities) |->
                LET act_data == day.activities[k]
                IN Activity(act_data.time, act_data.name,
                            act_data.estimated_cost, act_data.duration_hours,
                            act_data.category, act_data.source)]
        daily_plans ==
            [d \in 1..Len(days) |->
                [day_number |-> days[d].day_number,
                 activities |-> Activities(days[d]),
                 total_cost |-> DayCost(days[d].activities)]]
        total_activities_cost ==
            SumSeq([d \in 1..Len(days) |-> daily_plans[d].total_cost])
    IN IF \E d \in 1..Len(days) : ~HasKeys(days[d]) THEN Failed("KeyError")
       ELSE IF \E d \in 1..Len(days) : ~Adds(days[d])
       THEN Failed("TypeError")
       ELSE IF "accommodation" \notin DOMAIN plan_json THEN Failed("KeyError")
       ELSE IF plan_json.accommodation = None THEN Failed("TypeError")
       ELSE IF ~({"cost_per_night", "total_nights"}
                    \subseteq DOMAIN plan_json.accommodation)
       THEN Failed("KeyError")
       ELSE IF "transportation" \notin DOMAIN plan_json THEN Failed("KeyError")
       ELSE IF plan_json.transportation = None THEN Failed("AttributeError")
       ELSE IF "key_highlights" \notin DOMAIN plan_json THEN Failed("KeyError")
       ELSE
       LET accommodation == plan_json.accommodation
           accommodation_cost ==
               accommodation.cost_per_night * accommodation.total_nights
           transportation == plan_json.transportation
           transport_cost ==
               DictGet(transportation, "estimated_daily_cost", 0)
               * Len(daily_plans)
       IN Built([plan_id |-> theme_config.id,
                 total_cost |-> total_activities_cost + accommodation_cost
                                + transport_cost,
                 cost_breakdown |->
                     [activities |-> total_activities_cost,
                      accommodation |-> accommodation_cost,
                      transportation |-> transport_cost],
                 daily_plans |-> List(daily_plans),
                 accommodation |-> accommodation,
                 transportation |-> transportation,
                 pace |-> theme_config.pace])

\* _call_planner_llm re-raises a failed request; otherwise the JSON is parsed
_generate_single_plan(response, theme_config) ==
    IF ~response.ok THEN Failed("RequestException")
    ELSE _parse_plan_json(response.json, theme_config)


\* the loop of create_plans skipping a generation that fails
FirstFailureSkipped(generated) ==
    LET built == SelectSeq(generated, LAMBDA g : g.raised = NoException)
    IN [raised |-> NoException,
        plans |-> [i \in 1..Len(built) |-> built[i].plan]]

\* the plans of the loop of create_plans, or the first exception raised
FirstFailure(generated) ==
    LET failing == {i \in 1..Len(generated) :
                      generated[i].raised # NoException}
    IN IF failing = {}
       THEN [raised |-> NoException,
             plans |-> [i \in 1..Len(generated) |-> generated[i].plan]]
       ELSE [raised |->
                generated[CHOOSE i \in failing :
                             \A j \in failing : i <= j].raised,
             plans |-> <<>>]

\* the three plans, or the first exception of the three generations
create_plans(responses, reqs) ==
    IF ~({"destination", "budget"} \subseteq DOMAIN reqs)
    THEN [raised |-> "KeyError", plans |-> <<>>]
    ELSE FirstFailure([i \in 1..Len(plan_themes) |->
                          _generate_single_plan(responses[i],
                                                plan_themes[i])])

\* the JSON of an itinerary as the language model returns it
PlanJson(day_lists, accommodation, transportation) ==
    [daily_plans |->
        List([d \in 1..Len(day_lists) |->
                 [day_number |-> d, activities |-> day_lists[d]]]),
     accommodation |-> accommodation, transportation |-> transportation,
     key_highlights |-> <<>>]

RelaxedJson == PlanJson(<<Spaced(4)>>, Hotel, Metro)
PackedJson ==
    PlanJson(<<Spaced(MAX_DAILY_ACTIVITIES + 1),
               Spaced(MAX_DAILY_ACTIVITIES + 1)>>, Hotel, Metro)
BadTimeJson == PlanJson(<<<<Tower, BadTime>>>>, Hotel, Metro)
NoNightsJson ==
    PlanJson(<<Spaced(4)>>, [name |-> "Test Hotel", cost_per_night |-> 100],
             Metro)

\* what the language model answers to the three planning requests of a trip
PlannerRuns ==
    {<<Answer(RelaxedJson), Answer(RelaxedJson), Answer(PackedJson)>>,
     <<Answer(BadTimeJson), Answer(RelaxedJson), Answer(RelaxedJson)>>,
     <<Answer(RelaxedJson), NoAnswer, Answer(RelaxedJson)>>,
     <<Answer(NoNightsJson), Answer(RelaxedJson), Answer(RelaxedJson)>>}

\* the requirements of a trip
Trip(b) == [destination |-> "Paris", budget |-> b, duration_days |-> 3]

TripRequirements ==
    {Trip(1000), WithBudget(1000),
     [destination |-> "Paris", duration_days |-> 3]}

-----------------------------------------------------------------------------
(* The refinement agent: refine_plan                                       *)

\* the change requests of the parsed answer, [] on any failure
_parse_feedback(response) ==
    IF ~response.ok THEN <<>> ELSE DictGet(response.json, "changes", <<>>)

_plan_to_dict(plan) ==
    [plan_id |-> plan.plan_id,
     pace |-> plan.pace,
     total_cost |-> plan.total_cost,
     cost_breakdown |-> plan.cost_breakdown,
     accommodation |-> plan.accommodation,
     transportation |-> plan.transportation,
     daily_plans |->
        List([d \in 1..Len(plan.daily_plans.value) |->
                LET day == plan.daily_plans.value[d]
                IN [day_number |-> day.day_number,
                    total_cost |-> day.total_cost,
                    activities |->
                        [k \in 1..Len(day.activities) |->
                            LET act == day.activities[k]
                            IN [time |-> act.time, name |-> act.name,
                                estimated_cost |-> act.estimated_cost,
                                duration_hours |-> act.duration_hours,
                                category |-> act.category,
                                source |-> act.source]]]])]

\* the plan rebuilt from the dict: every figure is taken as the dict gives it
_dict_to_plan(plan_dict, plan_id) ==
    IF "daily_plans" \notin DOMAIN plan_dict THEN Failed("KeyError")
    ELSE IF plan_dict.daily_plans.type # "list" THEN Failed("TypeError")
    ELSE
    LET days == plan_dict.daily_plans.value
        HasKeys(day_data) ==
            /\ {"day_number", "activities", "total_cost"}
                  \subseteq DOMAIN day_data
            /\ \A k \in 1..Len(day_data.activities) :
                  (ActivityKeys \ {"source"})
                      \subseteq DOMAIN day_data.activities[k]
        daily_plans ==
            [d \in 1..Len(days) |->
                [day_number |-> days[d].day_number,
                 activities |->
                    [k \in 1..Len(days[d].activities) |->
                        LET act == days[d].activities[k]
                        IN Activity(act.time, act.name, act.estimated_cost,
                                    act.duration_hours, act.category,
                                    DictGet(act, "source", ""))],
                 total_cost |-> days[d].total_cost]]
    IN IF \E d \in 1..Len(days) : ~HasKeys(days[d]) THEN Failed("KeyError")
       ELSE IF ~({"total_cost", "cost_breakdown", "accommodation",
                  "transportation", "pace"} \subseteq DOMAIN plan_dict)
       THEN Failed("KeyError")
       ELSE Built([plan_id |-> plan_id,
                   total_cost |-> plan_dict.total_cost,
                   cost_breakdown |-> plan_dict.cost_breakdown,
                   daily_plans |-> List(daily_plans),
                   accommodation |-> plan_dict.accommodation,
                   transportation |-> plan_dict.transportation,
                   pace |-> plan_dict.pace])

\* a change request the prompts can be written from
Describable(change) == {"type", "description"} \subseteq DOMAIN change

\* the plan of the answer, the original plan when the request or the
\* conversion fails
_apply_changes(original_plan, change_requests, response) ==
    IF original_plan.daily_plans.type # "list" THEN Failed("TypeError")
    ELSE IF \E k \in 1..Len(change_requests) :
                ~Describable(change_requests[k])
    THEN Failed("KeyError")
    ELSE IF ~response.ok THEN Built(original_plan)
    ELSE LET converted == _dict_to_plan(response.json, original_plan.plan_id)
         IN IF converted.raised # NoException THEN Built(original_plan)
            ELSE converted

HistoryEntry(now, feedback, change_requests, validation_result) ==
    [timestamp |-> now, feedback |-> feedback,
     changes |-> change_requests,
     validation_status |-> validation_result.status,
     validation_score |-> validation_result.score]

\* a refine_plan that raises: nothing is returned and the history is kept
RefineRaises(e, history) ==
    [raised |-> e, refined_plan |-> None, validation_result |-> NoResult,
     refinement_history |-> history]

\* the history holding only the newest entry
StoreRewriting(history, entry) == <<entry>>

\* self.refinement_history.append(entry)
StoreRefinement(history, entry) == Append(history, entry)

\* refine_plan from the re-validation on: validated is what
\* _validate_single_plan did with the refined plan
RefineStored(refined_plan, validated, feedback, changes, history, now) ==
    IF validated.raised # NoException
    THEN RefineRaises(validated.raised, history)
    ELSE [raised |-> NoException,
          refined_plan |-> refined_plan,
          validation_result |-> validated.result,
          refinement_history |->
              StoreRefinement(history,
                              HistoryEntry(now, feedback, changes,
                                           validated.result))]

\* refine_plan from the application of the changes on: applied is what
\* _apply_changes did
RefineApplied(applied, feedback, change_requests, reqs, history, now) ==
    IF applied.raised # NoException
    THEN RefineRaises(applied.raised, history)
    ELSE RefineStored(applied.plan,
                      _validate_single_plan(applied.plan, reqs), feedback,
                      change_requests, history, now)

\* refine_plan once the feedback is parsed into change_requests
RefineParsed(original_plan, feedback, changes, reqs, run, history, now) ==
    IF \E k \in 1..Len(changes) : ~Describable(changes[k])
    THEN RefineRaises("KeyError", history)
    ELSE RefineApplied(_apply_changes(original_plan, changes, run.plan),
                       feedback, changes, reqs, history, now)

\* refine_plan with the answers of the language model to its two requests
\* (run), the history of the agent and the time of the clock
refine_plan(original_plan, feedback, reqs, run, history, now) ==
    RefineParsed(original_plan, feedback, _parse_feedback(run.feedback), reqs,
                 run, history, now)

\* the parsed feedback: one change request, and one without its type
Requested ==
    Answer([changes |->
               <<[type |-> "modify", description |-> "lower the cost"]>>])
Untyped == Answer([changes |-> <<[description |-> "lower the cost"]>>])

\* the dict without the last activity of its first day, all totals redone
WithoutLastActivity(plan_dict) ==
    LET days == plan_dict.daily_plans.value
        acts == days[1].activities
        saved == acts[Len(acts)].estimated_cost.value
    IN IF days = <<>> \/ days[1].activities = <<>> THEN plan_dict
       ELSE [plan_dict EXCEPT
                !.daily_plans =
                    List([days EXCEPT
                            ![1] = [@ EXCEPT
                                      !.activities =
                                          SubSeq(acts, 1, Len(acts) - 1),
                                      !.total_cost = @ - saved]]),
                !.cost_breakdown.activities = @ - saved,
                !.total_cost = @ - saved]

\* the dict with the first activity moved to an hour that does not exist
Rescheduled(plan_dict) ==
    LET days == plan_dict.daily_plans.value
    IN IF days = <<>> \/ days[1].activities = <<>> THEN plan_dict
       ELSE [plan_dict EXCEPT
                !.daily_plans =
                    List([days EXCEPT
                            ![1].activities[1].time =
                                Str(<<"2", "5", ":", "0", "0">>)])]

\* what the language model answers to the two requests of a refinement:
\* the parsed feedback and the changed plan
RefinementRuns(plan) ==
    LET plan_dict == _plan_to_dict(plan)
        Run(feedback_response, plan_response) ==
            [feedback |-> feedback_response, plan |-> plan_response]
    IN {Run(NoAnswer, NoAnswer),
        Run(NoAnswer,
            Answer([key \in DOMAIN plan_dict \ {"cost_breakdown"} |->
                       plan_dict[key]])),
        Run(Requested, Answer([plan_dict EXCEPT !.total_cost = @ - 100])),
        Run(Requested, Answer(WithoutLastActivity(plan_dict))),
        Run(Requested, Answer(Rescheduled(plan_dict))),
        Run(Requested, NoAnswer),
        Run(Untyped, NoAnswer)}

-----------------------------------------------------------------------------
(* validate_plans, one loop iteration per step                             *)

TypeOK ==
    /\ pc \in {"idle", "loop", "returned", "raised", "presented", "selected",
              "refined", "prompt", "finalized"}
    /\ iteration \in 0..max_iterations
    /\ idx \in 1..(Len(plans) + 1)
    /\ Len(validation_results) <= Len(plans)

\* the calls of validate_plans: every batch of library plans with and without
\* a budget, and every single plan
Calls ==
    {<<b, r>> : b \in Batches, r \in {WithBudget(1000), WithoutBudget}}
    \cup {<<<<in[1]>>, in[2]>> : in \in SinglePlanInputs}
    \cup {<<b, WithBudget(1000)>> : b \in WarningBatches}
    \cup {<<<<in[1]>>, in[2]>> : in \in CheckInputs}
    \cup FreeBatches

\* validate_plans(plans, user_requirements) has been entered
Init ==
    /\ \E call \in Calls :
          /\ plans = call[1]
          /\ user_requirements = call[2]
    /\ validation_results = <<>>
    /\ pc = "loop"
    /\ idx = 1
    /\ exception = NoException
    /\ current_session = None
    /\ refinement_history = <<>>
    /\ session_files = {}
    /\ user_feedback = None
    /\ clock = 0
    /\ initial_plan = None
    /\ current_plan = None
    /\ iteration = 0
    /\ max_iterations = 0

\* the loop body putting the newest result first
ValidatePlanPrepend ==
    /\ pc = "loop"
    /\ idx <= Len(plans)
    /\ LET call == _validate_single_plan(plans[idx], user_requirements)
       IN /\ call.raised = NoException
          /\ validation_results' = <<call.result>> \o validation_results
    /\ idx' = idx + 1
    /\ UNCHANGED <<plans, user_requirements, pc, exception, orchestrator>>
    /\ UNCHANGED interactive

\* the loop body of an agent that keeps its issue list between calls
ValidatePlanKeepsIssues ==
    /\ pc = "loop"
    /\ idx <= Len(plans)
    /\ LET call == _validate_single_plan(plans[idx], user_requirements)
           kept == IF validation_results = <<>> THEN <<>>
                   ELSE validation_results[Len(validation_results)].issues
       IN /\ call.raised = NoException
          /\ validation_results' =
                Append(validation_results,
                       [call.result EXCEPT !.issues = kept \o @])
    /\ idx' = idx + 1
    /\ UNCHANGED <<plans, user_requirements, pc, exception, orchestrator>>
    /\ UNCHANGED interactive

\* the loop body of a validator that clamps the cost of the plan it reads
ValidatePlanClampsCost ==
    /\ pc = "loop"
    /\ idx <= Len(plans)
    /\ LET call == _validate_single_plan(plans[idx], user_requirements)
       IN /\ call.raised = NoException
          /\ validation_results' = Append(validation_results, call.result)
    /\ idx' = idx + 1
    /\ plans' = [plans EXCEPT ![idx].total_cost = Max(0, @)]
    /\ UNCHANGED <<user_requirements, pc, exception, orchestrator>>
    /\ UNCHANGED interactive

\* the loop body when _validate_single_plan returns
ValidatePlan ==
    /\ pc = "loop"
    /\ idx <= Len(plans)
    /\ LET call == _validate_single_plan(plans[idx], user_requirements)
       IN /\ call.raised = NoException
          /\ validation_results' = Append(validation_results, call.result)
    /\ idx' = idx + 1
    /\ UNCHANGED <<plans, user_requirements, pc, exception, orchestrator>>
    /\ UNCHANGED interactive

\* the loop body when _validate_single_plan raises: nothing catches it
ValidatePlanRaises ==
    /\ pc = "loop"
    /\ idx <= Len(plans)
    /\ LET call == _validate_single_plan(plans[idx], user_requirements)
       IN /\ call.raised # NoException
          /\ exception' = call.raised
    /\ pc' = "raised"
    /\ UNCHANGED <<plans, user_requirements, validation_results, idx,
                   orchestrator>>
    /\ UNCHANGED interactive

\* return validation_results
ValidatePlansReturn ==
    /\ pc = "loop"
    /\ idx > Len(plans)
    /\ pc' = "returned"
    /\ UNCHANGED <<plans, user_requirements, validation_results, idx,
                   exception, orchestrator>>
    /\ UNCHANGED interactive

Next == ValidatePlan \/ ValidatePlanRaises \/ ValidatePlansReturn

Spec == Init /\ [][Next]_vars

-----------------------------------------------------------------------------
(* The orchestrator: plan_trip, select_and_refine_plan, continue_refinement *)

\* the research data of a destination, without the gathered insights
research_destination(destination) ==
    [destination |-> destination, summary_insights |-> <<>>]

\* current_session as plan_trip creates it at time now; the key
\* final_validation is absent until a refinement sets it
NewSession(reqs, now) ==
    [session_id |-> now, destination |-> reqs.destination,
     user_requirements |-> reqs, stage |-> "research", started_at |-> now,
     research_data |-> None, plans |-> None, validation_results |-> None,
     selected_plan |-> None, final_plan |-> None, final_validation |-> None]

\* the session_data that _save_session writes
_save_session(session, history) ==
    [session_id |-> session.session_id,
     destination |-> session.destination,
     user_requirements |-> session.user_requirements,
     stage |-> session.stage,
     started_at |-> session.started_at,
     has_research |-> session.research_data # None,
     num_plans |-> IF session.plans # None /\ session.plans.value # <<>>
                   THEN Len(session.plans.value) ELSE 0,
     selected_plan_id |-> IF session.selected_plan # None
                          THEN Str(session.selected_plan.plan_id) ELSE None,
     refinement_count |-> Len(history)]

\* the data directory after the file named by destination and session_id is
\* written
WriteFile(files, session_data) ==
    {f \in files : \/ f.session_id # session_data.session_id
                   \/ f.destination # session_data.destination}
    \cup {session_data}

\* no call of the orchestrator is in progress
Finished == {"idle", "presented", "selected", "refined", "raised"}

PlanIds == {"A", "Z"}
Feedbacks == {None, Str("make it cheaper")}
MoreFeedbacks == {Str("slow down")}

\* the orchestrator after construction
InitSession ==
    /\ plans = <<>>
    /\ user_requirements = <<>>
    /\ validation_results = <<>>
    /\ pc = "idle"
    /\ idx = 1
    /\ exception = NoException
    /\ current_session = None
    /\ refinement_history = <<>>
    /\ session_files = {}
    /\ user_feedback = None
    /\ clock = 0
    /\ initial_plan = None
    /\ current_plan = None
    /\ iteration = 0
    /\ max_iterations = 0

\* plan_trip up to the call of validate_plans
PlanTrip ==
    /\ pc \in Finished
    /\ clock < MaxClock
    /\ \E reqs \in TripRequirements, responses \in PlannerRuns :
          IF "destination" \notin DOMAIN reqs
          THEN /\ pc' = "raised"
               /\ exception' = "KeyError"
               /\ UNCHANGED <<plans, user_requirements, validation_results,
                              idx, orchestrator>>
          ELSE
          \E session \in {[NewSession(reqs, clock + 1) EXCEPT
                              !.research_data =
                                  research_destination(reqs.destination),
                              !.stage = "planning"]},
             created \in {create_plans(responses, reqs)} :
             /\ clock' = clock + 1
             /\ IF created.raised # NoException
                THEN /\ current_session' = session
                     /\ pc' = "raised"
                     /\ exception' = created.raised
                     /\ UNCHANGED <<plans, user_requirements,
                                    validation_results, idx>>
                ELSE /\ current_session' =
                           [session EXCEPT !.plans = List(created.plans),
                                           !.stage = "validation"]
                     /\ plans' = created.plans
                     /\ user_requirements' = reqs
                     /\ validation_results' = <<>>
                     /\ idx' = 1
                     /\ pc' = "loop"
                     /\ exception' = NoException
             /\ UNCHANGED <<refinement_history, session_files,
                            user_feedback>>
    /\ UNCHANGED interactive

\* plan_trip after validate_plans has returned
PlanTripPresent ==
    /\ pc = "returned"
    /\ current_session # None
    /\ current_session.stage = "validation"
    /\ LET session ==
              [current_session EXCEPT
                  !.validation_results = List(validation_results),
                  !.stage = "presentation"]
       IN /\ current_session' = session
          /\ session_files' =
                WriteFile(session_files,
                          _save_session(session, refinement_history))
    /\ pc' = "presented"
    /\ UNCHANGED <<plans, user_requirements, validation_results, idx,
                   exception, refinement_history, user_feedback, clock>>
    /\ UNCHANGED interactive

\* a call that prints a message and returns: nothing has changed
Ignored == UNCHANGED <<pc, exception, orchestrator>>

\* the call of refine_plan and what the orchestrator does with its result;
\* stage is the stage the session is left in when the call completes
RefineInSession(session, plan, feedback, run, stage) ==
    \E call \in {refine_plan(plan, feedback, session.user_requirements, run,
                              refinement_history, clock + 1)} :
       IF call.raised # NoException
       THEN /\ current_session' = session
            /\ pc' = "raised"
            /\ exception' = call.raised
            /\ UNCHANGED <<refinement_history, session_files, clock>>
       ELSE \E refined \in {[session EXCEPT
                                !.final_plan = call.refined_plan,
                                !.final_validation = call.validation_result,
                                !.stage = stage]} :
               /\ clock < MaxClock
               /\ refinement_history' = call.refinement_history
               /\ clock' = clock + 1
               /\ current_session' = refined
               /\ session_files' =
                     WriteFile(session_files,
                               _save_session(refined,
                                             call.refinement_history))
               /\ pc' = "refined"
               /\ exception' = NoException

SelectAndRefinePlan ==
    /\ pc \in Finished
    /\ \E selected_plan_id \in PlanIds, feedback \in Feedbacks :
          IF current_session = None
          THEN Ignored
          ELSE IF current_session.plans = None
                  \/ current_session.plans.value = <<>>
          THEN Ignored
          ELSE
             LET found == SelectSeq(current_session.plans.value,
                                    LAMBDA p : p.plan_id = selected_plan_id)
                 selected_plan == found[1]
                 session == [current_session EXCEPT
                                !.selected_plan = selected_plan,
                                !.stage = "refinement"]
                 complete == [session EXCEPT !.final_plan = selected_plan,
                                             !.stage = "complete"]
             IN IF found = <<>> THEN Ignored
                ELSE IF feedback # None /\ feedback.value # ""
                THEN \E run \in RefinementRuns(selected_plan) :
                        /\ user_feedback' = feedback
                        /\ RefineInSession(session, selected_plan, feedback,
                                           run, "complete")
                ELSE /\ current_session' = complete
                     /\ session_files' =
                           WriteFile(session_files,
                                     _save_session(complete,
                                                   refinement_history))
                     /\ pc' = "selected"
                     /\ exception' = NoException
                     /\ user_feedback' = feedback
                     /\ UNCHANGED <<refinement_history, clock>>
    /\ UNCHANGED <<plans, user_requirements, validation_results, idx>>
    /\ UNCHANGED interactive

ContinueRefinement ==
    /\ pc \in Finished
    /\ \E additional_feedback \in MoreFeedbacks :
          IF current_session = None
          THEN Ignored
          ELSE IF current_session.final_plan = None
          THEN Ignored
          ELSE \E run \in RefinementRuns(current_session.final_plan) :
                     /\ user_feedback' = additional_feedback
                     /\ RefineInSession(current_session,
                                        current_session.final_plan,
                                        additional_feedback, run,
                                        current_session.stage)
    /\ UNCHANGED <<plans, user_requirements, validation_results, idx>>
    /\ UNCHANGED interactive

NextSession ==
    \/ PlanTrip
    \/ ValidatePlan
    \/ ValidatePlanRaises
    \/ ValidatePlansReturn
    \/ PlanTripPresent
    \/ SelectAndRefinePlan
    \/ ContinueRefinement

SpecSession == InitSession /\ [][NextSession]_vars


-----------------------------------------------------------------------------
(* The refinement agent: interactive_refinement_session                    *)

Done == <<"d", "o", "n", "e">>

\* what the user types at the prompt
FeedbackInputs ==
    {Done, <<"D", "O", "N", "E">>, <<"D", "o", "n", "e">>, <<"d", "o", "n">>,
     <<"c", "h", "e", "a", "p">>}

\* the plans a session is started on
SessionPlans == {PlanA, PlanB, PlanE}

\* interactive_refinement_session(original_plan, user_requirements,
\* max_iterations=n) of a new agent is at its first loop test
InitInteractive ==
    /\ initial_plan \in SessionPlans
    /\ current_plan = initial_plan
    /\ iteration = 0
    /\ max_iterations \in 0..MaxIterations
    /\ user_requirements = WithBudget(1000)
    /\ pc = "prompt"
    /\ exception = NoException
    /\ refinement_history = <<>>
    /\ user_feedback = None
    /\ clock = 0
    /\ plans = <<>>
    /\ validation_results = <<>>
    /\ idx = 1
    /\ current_session = None
    /\ session_files = {}

\* what a step of the session leaves alone
SessionFrame ==
    UNCHANGED <<plans, user_requirements, validation_results, idx,
                current_session, session_files, initial_plan, max_iterations>>

\* the user types done in any letter case: break, and return current_plan
Finalize ==
    /\ pc = "prompt"
    /\ iteration < max_iterations
    /\ \E feedback \in FeedbackInputs :
          /\ Lower(feedback) = Done
          /\ user_feedback' = Str(feedback)
    /\ pc' = "finalized"
    /\ UNCHANGED <<current_plan, iteration, refinement_history, clock,
                   exception>>
    /\ SessionFrame

\* a round that compares the feedback with done as typed
RefineRoundCaseSensitive ==
    /\ pc = "prompt"
    /\ iteration < max_iterations
    /\ \E feedback \in FeedbackInputs, run \in RefinementRuns(current_plan) :
          /\ feedback # Done
          /\ user_feedback' = Str(feedback)
          /\ \E call \in {refine_plan(current_plan, Str(feedback),
                                      user_requirements, run,
                                      refinement_history, clock + 1)} :
                IF call.raised # NoException
                THEN /\ pc' = "raised"
                     /\ exception' = call.raised
                     /\ UNCHANGED <<current_plan, iteration,
                                    refinement_history, clock>>
                ELSE /\ current_plan' = call.refined_plan
                     /\ refinement_history' = call.refinement_history
                     /\ iteration' = iteration + 1
                     /\ clock' = clock + 1
                     /\ UNCHANGED <<pc, exception>>
    /\ SessionFrame

\* one round of the loop with any other feedback: refine_plan on
\* current_plan, then iteration += 1; an exception of refine_plan leaves the
\* session
RefineRound ==
    /\ pc = "prompt"
    /\ iteration < max_iterations
    /\ \E feedback \in FeedbackInputs, run \in RefinementRuns(current_plan) :
          /\ Lower(feedback) # Done
          /\ user_feedback' = Str(feedback)
          /\ \E call \in {refine_plan(current_plan, Str(feedback),
                                      user_requirements, run,
                                      refinement_history, clock + 1)} :
                IF call.raised # NoException
                THEN /\ pc' = "raised"
                     /\ exception' = call.raised
                     /\ UNCHANGED <<current_plan, iteration,
                                    refinement_history, clock>>
                ELSE /\ current_plan' = call.refined_plan
                     /\ refinement_history' = call.refinement_history
                     /\ iteration' = iteration + 1
                     /\ clock' = clock + 1
                     /\ UNCHANGED <<pc, exception>>
    /\ SessionFrame

\* the loop test fails: return current_plan
ReachedMaximum ==
    /\ pc = "prompt"
    /\ iteration >= max_iterations
    /\ pc' = "finalized"
    /\ UNCHANGED <<current_plan, iteration, refinement_history, clock,
                   exception, user_feedback>>
    /\ SessionFrame

NextInteractive ==
    \/ Finalize
    \/ RefineRound
    \/ ReachedMaximum

\* the user answers every prompt and the calls of refine_plan come back
SpecInteractive ==
    InitInteractive /\ [][NextInteractive]_vars /\ WF_vars(NextInteractive)

-----------------------------------------------------------------------------
(* Properties                                                              *)

Results == 1..Len(validation_results)

\* the number of issues of result r with severity sev
CountSeverity(r, sev) ==
    Cardinality({j \in 1..Len(r.issues) : r.issues[j].severity = sev})

Budget == DictGet(user_requirements, "budget", 0)

\* C1: the status of every result is one of the three statuses and follows
\* from the severities of its issues alone: NEEDS_REVISION if one is critical,
\* otherwise APPROVED_WITH_WARNINGS if one is high, otherwise APPROVED.
C1_StatusFromSeverities ==
    \A k \in Results :
        LET r == validation_results[k]
            sevs == {r.issues[j].severity : j \in 1..Len(r.issues)}
        IN /\ r.status \in {"APPROVED", "APPROVED_WITH_WARNINGS",
                            "NEEDS_REVISION"}
           /\ (r.status = "NEEDS_REVISION") <=> ("critical" \in sevs)
           /\ (r.status = "APPROVED_WITH_WARNINGS")
                  <=> ("critical" \notin sevs /\ "high" \in sevs)

\* two results of one batch with the same score and different statuses: one
\* critical issue against two high ones
C1_Witness ==
    \E j, k \in Results :
        LET a == validation_results[j]
            b == validation_results[k]
        IN /\ a.score = b.score
           /\ CountSeverity(a, "critical") = 1 /\ Len(a.issues) = 1
           /\ CountSeverity(b, "high") = 2 /\ Len(b.issues) = 2
           /\ a.status = "NEEDS_REVISION"
           /\ b.status = "APPROVED_WITH_WARNINGS"

\* C2: the score of every result is max(0, 100 - 20*critical - 10*high
\* - 5*medium - 2*low), each issue of the list counted once.
C2_ScoreFormula ==
    \A k \in Results :
        LET r == validation_results[k]
            lost == 20 * CountSeverity(r, "critical")
                    + 10 * CountSeverity(r, "high")
                    + 5 * CountSeverity(r, "medium")
                    + 2 * CountSeverity(r, "low")
        IN r.score = IF lost >= 100 THEN 0 ELSE 100 - lost

\* a result that carries a high and a critical issue for the same pair of
\* activities and is charged for both
C2_Witness ==
    \E k \in Results :
        LET r == validation_results[k]
        IN /\ \E i, j \in 1..Len(r.issues) :
                /\ r.issues[i].severity = "high"
                /\ r.issues[j].severity = "critical"
                /\ r.issues[i].affected_activities
                       = r.issues[j].affected_activities
                /\ Len(r.issues[i].affected_activities) = 2
           /\ Len(r.issues) = 4
           /\ r.score = 60

\* C3: the score of every result lies between 0 and 100.
C3_ScoreBounds ==
    \A k \in Results :
        /\ validation_results[k].score >= 0
        /\ validation_results[k].score <= 100

\* a result whose penalties add up to more than 100 and whose score is 0
C3_Witness ==
    \E k \in Results :
        /\ 20 * CountSeverity(validation_results[k], "critical") > 100
        /\ validation_results[k].score = 0

\* the plan whose validation has been attempted: the loop has reached it
Reached(k) == pc # "loop" /\ k \in 1..Len(plans) /\ k <= idx

Parses(a) == strptime(a.time).raised = NoException

\* start of the second activity minus end of the first, in minutes
BufferMinutes(a, b) ==
    strptime(b.time).minutes - (strptime(a.time).minutes + a.duration_hours)

\* the issues of result r for day d whose text is one of templates
IssuesOfDay(r, d, templates) ==
    {j \in 1..Len(r.issues) :
        /\ r.issues[j].category = "timing"
        /\ r.issues[j].day_number = Num(d)
        /\ r.issues[j].problem[1] \in templates}

\* C4: a consecutive pair whose first activity ends after the second starts
\* gets exactly one critical overlap issue and no high insufficient-buffer
\* issue.
C4_OverlapExclusive ==
    \A k \in Results :
        \A d \in 1..Len(DaysOf(plans[k])) :
            LET day == DaysOf(plans[k])[d]
                acts == day.activities
                r == validation_results[k]
            IN \A i \in 1..(Len(acts) - 1) :
                (/\ Parses(acts[i]) /\ Parses(acts[i + 1])
                 /\ BufferMinutes(acts[i], acts[i + 1]) < 0)
                => LET ForPair(templates) ==
                           {j \in IssuesOfDay(r, day.day_number, templates) :
                               r.issues[j].affected_activities
                                   = <<acts[i].name, acts[i + 1].name>>}
                   IN /\ Cardinality(ForPair({"Activities overlap"})) = 1
                      /\ \A j \in ForPair({"Activities overlap"}) :
                            r.issues[j].severity = "critical"
                      /\ ForPair({"Only minutes between"}) = {}

MalformedPlan(plan) == plan.daily_plans.type # "list"

ValidatedAlone(plan) == _validate_single_plan(plan, user_requirements)

\* C5: a batch with a malformed plan (no daily_plans collection) still gets
\* one result per plan; the malformed plan's result is NEEDS_REVISION with
\* score 0 and one critical issue, the others are as if validated alone.
C5_BatchIsolation ==
    (/\ pc # "loop"
     /\ Budget > 0
     /\ \E k \in 1..Len(plans) : MalformedPlan(plans[k])
     /\ \A k \in 1..Len(plans) :
           ~MalformedPlan(plans[k])
           => ValidatedAlone(plans[k]).raised = NoException)
    => /\ pc = "returned"
       /\ Len(validation_results) = Len(plans)
       /\ \A k \in 1..Len(plans) :
             LET r == validation_results[k]
             IN IF MalformedPlan(plans[k])
                THEN /\ r.status = "NEEDS_REVISION"
                     /\ r.score = 0
                     /\ Len(r.issues) = 1
                     /\ r.issues[1].severity = "critical"
                ELSE r = ValidatedAlone(plans[k]).result

\* the budget issues of result r that concern the plan as a whole
PlanBudgetIssues(r, sevs) ==
    {j \in 1..Len(r.issues) :
        /\ r.issues[j].category = "budget"
        /\ r.issues[j].day_number = None
        /\ r.issues[j].severity \in sevs}

Severities == {"critical", "high", "medium", "low"}

\* C6: a result has exactly one critical plan-wide budget issue when
\* total_cost > budget * 1.10 and none otherwise; with budget 1000 a cost of
\* 1101 gives one, costs of 1099 and 1100 give none.
C6_BudgetBoundary ==
    \A k \in Results :
        LET n == Cardinality(PlanBudgetIssues(validation_results[k],
                                              {"critical"}))
            cost == plans[k].total_cost
        IN /\ n = IF 10 * cost > 11 * Budget THEN 1 ELSE 0
           /\ (Budget = 1000 /\ cost = 1101) => n = 1
           /\ (Budget = 1000 /\ cost \in {1099, 1100}) => n = 0

\* a plan costing 1101 validated against a budget of 1000, with its critical
\* budget issue
C6_Witness ==
    \E k \in Results :
        /\ Budget = 1000
        /\ plans[k].total_cost = 1101
        /\ PlanBudgetIssues(validation_results[k], {"critical"}) # {}

\* C7: for a budget > 0 the budget check yields at most one issue: a low one
\* exactly when total_cost < 0.6 * budget, a critical one exactly when
\* total_cost > 1.10 * budget, and nothing in between.
C7_BudgetBranches ==
    \A k \in Results :
        Budget > 0 =>
            LET r == validation_results[k]
                cost == plans[k].total_cost
                all == PlanBudgetIssues(r, Severities)
                low == PlanBudgetIssues(r, {"low"})
                critical == PlanBudgetIssues(r, {"critical"})
            IN /\ Cardinality(all) <= 1
               /\ all = low \cup critical
               /\ (low # {}) <=> (10 * cost < 6 * Budget)
               /\ (critical # {}) <=> (10 * cost > 11 * Budget)
               /\ (10 * cost >= 6 * Budget /\ 10 * cost <= 11 * Budget)
                      => all = {}

\* a plan just under 60% of the budget with its low issue
C7_Witness ==
    \E k \in Results :
        /\ Budget = 1000
        /\ plans[k].total_cost = 599
        /\ Cardinality(PlanBudgetIssues(validation_results[k], {"low"})) = 1
        /\ PlanBudgetIssues(validation_results[k], {"critical"}) = {}

UnparsableTime(a) ==
    a.time.type = "str" /\ strptime(a.time).raised = "ValueError"

WellTyped(a) == a.time.type = "str" /\ IsNumber(a.estimated_cost)

\* C8: a time that is not a valid HH:MM string does not make validation
\* raise: the plan still gets its result, with a medium timing issue for the
\* day of the unparsable time.
C8_UnparsableTimeSkipped ==
    \A k \in 1..Len(plans) :
        (/\ Reached(k)
         /\ Budget > 0
         /\ ~MalformedPlan(plans[k])
         /\ \A d \in 1..Len(DaysOf(plans[k])) :
               \A i \in 1..Len(DaysOf(plans[k])[d].activities) :
                   WellTyped(DaysOf(plans[k])[d].activities[i]))
        => \A d \in 1..Len(DaysOf(plans[k])) :
              LET day == DaysOf(plans[k])[d]
              IN (/\ Len(day.activities) >= 2
                  /\ \E i \in 1..Len(day.activities) :
                        UnparsableTime(day.activities[i]))
                 => /\ exception = NoException
                    /\ Len(validation_results) >= k
                    /\ \E j \in 1..Len(validation_results[k].issues) :
                          LET issue == validation_results[k].issues[j]
                          IN /\ issue.severity = "medium"
                             /\ issue.category = "timing"
                             /\ issue.day_number = Num(day.day_number)

\* C9: a plan whose top-level shape is intact but with a malformed activity
\* (time absent or cost non-numeric) still gets a result, in which the
\* malformed activity has a critical issue of its own.
C9_MalformedActivityIsolated ==
    \A k \in 1..Len(plans) :
        (Reached(k) /\ Budget > 0 /\ ~MalformedPlan(plans[k]))
        => \A d \in 1..Len(DaysOf(plans[k])) :
              LET day == DaysOf(plans[k])[d]
              IN \A i \in 1..Len(day.activities) :
                    (/\ ~WellTyped(day.activities[i])
                     /\ \A e \in 1..Len(DaysOf(plans[k])) :
                           \A a \in 1..Len(DaysOf(plans[k])[e].activities) :
                               ~UnparsableTime(
                                    DaysOf(plans[k])[e].activities[a]))
                    => /\ exception = NoException
                       /\ Len(validation_results) >= k
                       /\ \E j \in 1..Len(validation_results[k].issues) :
                             LET issue == validation_results[k].issues[j]
                             IN /\ issue.severity = "critical"
                                /\ issue.day_number = Num(day.day_number)
                                /\ issue.affected_activities
                                       = <<day.activities[i].name>>

CountTemplates ==
    {"Day has activities (max recommended)", "Day only has activities"}

\* C10: each day gets at most one count-based timing issue: one high issue
\* listing all its activities when it has more than 8, one low issue when it
\* has fewer than 3, none for 3 to 8 activities.
C10_ActivityCount ==
    \A k \in Results :
        \A d \in 1..Len(DaysOf(plans[k])) :
            LET day == DaysOf(plans[k])[d]
                n == Len(day.activities)
                r == validation_results[k]
                counted == IssuesOfDay(r, day.day_number, CountTemplates)
            IN /\ Cardinality(counted) <= 1
               /\ n > 8 => /\ Cardinality(counted) = 1
                           /\ \A j \in counted :
                                 /\ r.issues[j].severity = "high"
                                 /\ r.issues[j].affected_activities
                                        = Names(day.activities)
               /\ n < 3 => /\ Cardinality(counted) = 1
                           /\ \A j \in counted : r.issues[j].severity = "low"
               /\ (n >= 3 /\ n <= 8) => counted = {}

\* a day of 9 activities with its one high issue naming all nine
C10_Witness ==
    \E k \in Results :
        \E d \in 1..Len(DaysOf(plans[k])) :
            LET day == DaysOf(plans[k])[d]
                r == validation_results[k]
            IN /\ Len(day.activities) = 9
               /\ \E j \in IssuesOfDay(r, day.day_number, CountTemplates) :
                     /\ r.issues[j].severity = "high"
                     /\ Len(r.issues[j].affected_activities) = 9

PairTemplates == {"Only minutes between", "Activities overlap"}

\* the names of the i-th consecutive pair of a day
PairNames(acts, i) == <<acts[i].name, acts[i + 1].name>>

\* no other consecutive pair of the day carries the same two names
PairNamedOnce(acts, i) ==
    \A m \in 1..(Len(acts) - 1) :
        m # i => PairNames(acts, m) # PairNames(acts, i)

\* C11: a consecutive pair with 0 <= buffer < 30 minutes gets exactly one
\* high timing issue naming both activities and no critical one; a pair with
\* a buffer of 30 minutes or more gets no issue.
C11_InsufficientBuffer ==
    \A k \in Results :
        \A d \in 1..Len(DaysOf(plans[k])) :
            LET day == DaysOf(plans[k])[d]
                acts == day.activities
                r == validation_results[k]
            IN \A i \in 1..(Len(acts) - 1) :
                LET buffer == BufferMinutes(acts[i], acts[i + 1])
                    forPair ==
                        {j \in IssuesOfDay(r, day.day_number, PairTemplates) :
                            r.issues[j].affected_activities
                                = PairNames(acts, i)}
                IN PairNamedOnce(acts, i)
                   => /\ (buffer >= 0 /\ buffer < 30)
                         => /\ Cardinality(forPair) = 1
                            /\ \A j \in forPair :
                                  /\ r.issues[j].severity = "high"
                                  /\ r.issues[j].problem[1]
                                         = "Only minutes between"
                      /\ buffer >= 30 => forPair = {}

\* a pair 15 minutes apart with its high issue, and a pair exactly 30 minutes
\* apart in the same result
C11_Witness ==
    \E k \in Results :
        \E d \in 1..Len(DaysOf(plans[k])) :
            LET day == DaysOf(plans[k])[d]
                acts == day.activities
                r == validation_results[k]
            IN /\ Len(acts) = 2
               /\ BufferMinutes(acts[1], acts[2]) = 15
               /\ \E j \in IssuesOfDay(r, day.day_number, PairTemplates) :
                     /\ r.issues[j].severity = "high"
                     /\ r.issues[j].affected_activities = PairNames(acts, 1)
               /\ \E e \in 1..Len(DaysOf(plans[k])) :
                     LET other == DaysOf(plans[k])[e].activities
                     IN /\ Len(other) >= 2
                        /\ BufferMinutes(other[1], other[2]) = 30

HoursTemplates ==
    {"Day has hours of activities (over 12 hours)",
     "Day only has hours of activities"}

\* the hours-based issues of the daily-balance check in result r for day d
HoursIssues(r, d) ==
    {j \in 1..Len(r.issues) :
        /\ r.issues[j].category = "logistics"
        /\ r.issues[j].day_number = Num(d)
        /\ r.issues[j].problem[1] \in HoursTemplates}

TotalMinutes(acts) ==
    SumSeq([k \in 1..Len(acts) |-> acts[k].duration_hours])

\* C20: per day the daily-balance check raises at most one hours-based issue:
\* a high one when the durations total more than 12 hours, a low one when
\* they total less than 4 hours (a day without activities included), none
\* from exactly 4 to exactly 12 hours.
C20_DailyHours ==
    \A k \in Results :
        \A d \in 1..Len(DaysOf(plans[k])) :
            LET day == DaysOf(plans[k])[d]
                total == TotalMinutes(day.activities)
                r == validation_results[k]
                hours == HoursIssues(r, day.day_number)
            IN /\ Cardinality(hours) <= 1
               /\ total > 12 * 60
                  => /\ Cardinality(hours) = 1
                     /\ \A j \in hours : r.issues[j].severity = "high"
               /\ total < 4 * 60
                  => /\ Cardinality(hours) = 1
                     /\ \A j \in hours : r.issues[j].severity = "low"
               /\ (total >= 4 * 60 /\ total <= 12 * 60) => hours = {}

\* a day of 14 hours with its high issue
C20_Witness ==
    \E k \in Results :
        \E d \in 1..Len(DaysOf(plans[k])) :
            LET day == DaysOf(plans[k])[d]
                r == validation_results[k]
            IN /\ TotalMinutes(day.activities) = 14 * 60
               /\ \E j \in HoursIssues(r, day.day_number) :
                     r.issues[j].severity = "high"

LongTemplates == {"Activity is scheduled for hours"}

FeasibilityTemplates ==
    {"Activity has negative cost",
     "Activity listed as free but may require admission"}

\* which of the five checks an issue comes from, by what it says
CheckOf(issue) ==
    IF issue.category = "timing" THEN 2
    ELSE IF issue.category = "logistics" THEN 3
    ELSE IF issue.day_number = None THEN 1
    ELSE IF issue.problem[1] \in FeasibilityTemplates THEN 4
    ELSE 5

\* the step of the timing check on one day an issue comes from
TimingStepOf(issue) ==
    IF issue.problem[1] \in CountTemplates THEN 1
    ELSE IF issue.problem[1] \in PairTemplates THEN 2
    ELSE 3

\* the first consecutive pair of acts with these names
PairPosition(acts, names) ==
    CHOOSE i \in 1..(Len(acts) - 1) :
        /\ PairNames(acts, i) = names
        /\ \A m \in 1..(i - 1) : PairNames(acts, m) # names

\* C13: the issues of a result are those of the budget, timing, daily-balance,
\* feasibility and cost-distribution checks, concatenated in that order; within
\* a check they follow day order, and within a day of the timing check the
\* count issue comes first, then the pair issues in pair order, then the
\* long-duration issues.
C13_IssueOrder ==
    \A k \in Results :
        LET r == validation_results[k]
            plan == plans[k]
        IN /\ r.issues = _validate_budget(plan, user_requirements).issues
                         \o _validate_timing(plan).issues
                         \o _validate_daily_balance(plan).issues
                         \o _validate_activity_feasibility(plan).issues
                         \o _validate_cost_distribution(plan).issues
           /\ \A a, b \in 1..Len(r.issues) :
                a < b =>
                  LET x == r.issues[a]
                      y == r.issues[b]
                  IN /\ CheckOf(x) <= CheckOf(y)
                     /\ (CheckOf(x) = CheckOf(y) /\ CheckOf(x) # 1)
                        => x.day_number.value <= y.day_number.value
                     /\ (CheckOf(x) = 2 /\ CheckOf(y) = 2
                         /\ x.day_number = y.day_number)
                        => /\ TimingStepOf(x) <= TimingStepOf(y)
                           /\ (TimingStepOf(x) = 2 /\ TimingStepOf(y) = 2)
                              => LET acts ==
                                        DaysOf(plan)[x.day_number.value]
                                            .activities
                                 IN PairPosition(acts, x.affected_activities)
                                    <= PairPosition(acts,
                                                    y.affected_activities)

\* a result with issues of all five checks, and with a count issue, a pair
\* issue and a long-duration issue for one day
C13_Witness ==
    \E k \in Results :
        LET r == validation_results[k]
        IN /\ \A c \in 1..5 :
                \E j \in 1..Len(r.issues) : CheckOf(r.issues[j]) = c
           /\ \E d \in 1..Len(DaysOf(plans[k])) :
                \A s \in 1..3 :
                    \E j \in 1..Len(r.issues) :
                        /\ CheckOf(r.issues[j]) = 2
                        /\ r.issues[j].day_number = Num(d)
                        /\ TimingStepOf(r.issues[j]) = s

\* C14: when validate_plans returns, it returns one result per plan, in input
\* order: the i-th result carries the i-th plan's id and is what
\* _validate_single_plan returns for that plan alone.
C14_OneResultPerPlan ==
    /\ Len(validation_results) <= Len(plans)
    /\ \A k \in Results :
          /\ validation_results[k].plan_id = plans[k].plan_id
          /\ validation_results[k] = ValidatedAlone(plans[k]).result
    /\ pc = "returned" => Len(validation_results) = Len(plans)

\* a returned batch of three plans with three different ids
C14_Witness ==
    /\ pc = "returned"
    /\ Len(plans) = 3
    /\ Len(validation_results) = 3
    /\ \A j, k \in 1..3 : j # k => plans[j].plan_id # plans[k].plan_id

C16_InputsUnchanged ==
    [][plans' = plans /\ user_requirements' = user_requirements]_vars

\* a batch of three plans has been validated, with issues and warnings found
C16_Witness ==
    /\ pc = "returned"
    /\ Len(validation_results) = 3
    /\ \E k \in Results : validation_results[k].issues # <<>>
    /\ \E k \in Results : validation_results[k].warnings # <<>>

\* the plan without its warning-triggering fields: accommodation name,
\* transportation 'daily' and the activities' sources
WithoutWarningFields(plan) ==
    [plan EXCEPT
        !.accommodation =
            IF @ = None THEN None
            ELSE [key \in DOMAIN @ \ {"name"} |-> @[key]],
        !.transportation =
            IF @ = None THEN None
            ELSE [key \in DOMAIN @ \ {"daily"} |-> @[key]],
        !.daily_plans =
            IF @.type # "list" THEN @
            ELSE List([d \in 1..Len(@.value) |->
                         [@.value[d] EXCEPT !.activities =
                             [k \in 1..Len(@) |->
                                 [@[k] EXCEPT !.source = ""]]]])]

\* C12: two plans of a batch that differ only in warning-triggering fields
\* (accommodation name, transportation 'daily', activity sources), validated
\* against the same requirements, get the same score, the same status and
\* the same issue list.
C12_WarningsDoNotAffectScore ==
    \A j, k \in Results :
        WithoutWarningFields(plans[j]) = WithoutWarningFields(plans[k])
        => /\ validation_results[j].score = validation_results[k].score
           /\ validation_results[j].status = validation_results[k].status
           /\ validation_results[j].issues = validation_results[k].issues

\* a plan with issues and its two variants got three different warning lists
C12_Witness ==
    /\ Len(validation_results) = 3
    /\ \A j, k \in Results :
          /\ WithoutWarningFields(plans[j]) = WithoutWarningFields(plans[k])
          /\ j # k => validation_results[j].warnings
                      # validation_results[k].warnings
    /\ validation_results[1].issues # <<>>
    /\ validation_results[1].warnings = <<>>
    /\ Len(validation_results[3].warnings) = 2

IsPrefix(s, t) == Len(s) <= Len(t) /\ SubSeq(t, 1, Len(s)) = s

\* C17: a refine_plan call that completes appends exactly one entry to the
\* refinement history, holding the feedback of the call, its change requests
\* and the status and score of the validation result the call returned; no
\* other step changes the history, so the history before any step is a prefix
\* of the history after it.
C17_HistoryAppendOnly ==
    [][/\ IsPrefix(refinement_history, refinement_history')
       /\ pc' = "refined"
          => LET entry == refinement_history'[Len(refinement_history')]
                 returned == current_session'.final_validation
             IN /\ refinement_history' = Append(refinement_history, entry)
                /\ DOMAIN entry = {"timestamp", "feedback", "changes",
                                   "validation_status", "validation_score"}
                /\ entry.feedback = user_feedback'
                /\ \A k \in 1..Len(entry.changes) :
                      Describable(entry.changes[k])
                /\ entry.validation_status = returned.status
                /\ entry.validation_score = returned.score
       /\ pc' # "refined" => refinement_history' = refinement_history]_vars

\* a second refinement has completed after a first one with other changes
C17_Witness ==
    /\ pc = "refined"
    /\ Len(refinement_history) = 2
    /\ user_feedback = Str("slow down")
    /\ refinement_history[1].feedback = Str("make it cheaper")
    /\ refinement_history[1].changes # refinement_history[2].changes
    /\ current_session.final_plan # current_session.selected_plan

\* C18: the refinement history belongs to one session: every entry of the
\* history was recorded after the current session started, and the
\* refinement_count saved for the current session counts the refinements of
\* that session only.
C18_HistoryScopedToSession ==
    current_session # None
    => LET own == {k \in 1..Len(refinement_history) :
                     refinement_history[k].timestamp
                         > current_session.started_at}
       IN /\ own = 1..Len(refinement_history)
          /\ \A f \in session_files :
                f.session_id = current_session.session_id
                => f.refinement_count = Cardinality(own)

\* the cost invariants of a plan
CostInvariants(plan) ==
    /\ \A d \in 1..Len(plan.daily_plans.value) :
          plan.daily_plans.value[d].total_cost
              = DayCost(plan.daily_plans.value[d].activities)
    /\ plan.total_cost = plan.cost_breakdown.activities
                         + plan.cost_breakdown.accommodation
                         + plan.cost_breakdown.transportation

\* C19: every plan that reaches validation, built by _parse_plan_json or
\* rebuilt by _dict_to_plan, satisfies the cost invariants: each day's
\* total_cost is the sum of its activities' costs and the plan's total_cost is
\* the sum of its cost_breakdown.
C19_CostInvariants ==
    current_session # None
    => /\ current_session.plans # None
          => \A k \in 1..Len(current_session.plans.value) :
                CostInvariants(current_session.plans.value[k])
       /\ current_session.final_plan # None
          => CostInvariants(current_session.final_plan)

\* the issues of result r on day d that come from the feasibility check
FeasibilityIssues(r, d) ==
    {j \in 1..Len(r.issues) :
        /\ r.issues[j].category = "budget"
        /\ r.issues[j].day_number = Num(d)
        /\ r.issues[j].problem[1] \in FeasibilityTemplates}

\* those with the given severity and wording that name one activity
NamedIssues(r, d, severity, template, name) ==
    {j \in FeasibilityIssues(r, d) :
        /\ r.issues[j].severity = severity
        /\ r.issues[j].problem[1] = template
        /\ r.issues[j].affected_activities = <<name>>}

NegativeCost(a) == a.estimated_cost.value < 0

FreeMuseum(a) ==
    a.estimated_cost.value = 0 /\ Contains(Lower(a.name), Museum)

\* C21: per activity the feasibility check raises one critical budget issue
\* exactly when estimated_cost < 0, one medium budget issue exactly when
\* estimated_cost = 0 and the lower-cased name contains "museum", and nothing
\* otherwise: no activity yields both, and a free activity that is no museum
\* yields none.
C21_FeasibilityPerActivity ==
    \A k \in Results :
        \A d \in 1..Len(DaysOf(plans[k])) :
            LET day == DaysOf(plans[k])[d]
                acts == day.activities
                r == validation_results[k]
                Named(P(_), name) ==
                    {m \in 1..Len(acts) : acts[m].name = name /\ P(acts[m])}
            IN /\ \A i \in 1..Len(acts) :
                     /\ Cardinality(NamedIssues(r, day.day_number, "critical",
                            "Activity has negative cost", acts[i].name))
                        = Cardinality(Named(NegativeCost, acts[i].name))
                     /\ Cardinality(NamedIssues(r, day.day_number, "medium",
                            "Activity listed as free but may require admission",
                            acts[i].name))
                        = Cardinality(Named(FreeMuseum, acts[i].name))
                     /\ ~(NegativeCost(acts[i]) /\ FreeMuseum(acts[i]))
               /\ Cardinality(FeasibilityIssues(r, day.day_number))
                  = Cardinality({m \in 1..Len(acts) :
                        NegativeCost(acts[m]) \/ FreeMuseum(acts[m])})

\* a validated plan with a free park next to a free museum, which alone gets
\* the medium issue, and a museum of negative cost, which gets the critical
\* issue only
C21_Witness ==
    \E k \in Results :
        LET days == DaysOf(plans[k])
            r == validation_results[k]
        IN /\ Len(days) = 2
           /\ days[1].activities = <<Park, Louvre>>
           /\ days[2].activities = <<NegativeMuseum, Park>>
           /\ Cardinality(FeasibilityIssues(r, 1)) = 1
           /\ Cardinality(FeasibilityIssues(r, 2)) = 1
           /\ \E j \in FeasibilityIssues(r, 1) :
                 /\ r.issues[j].severity = "medium"
                 /\ r.issues[j].affected_activities = <<Louvre.name>>
           /\ \E j \in FeasibilityIssues(r, 2) :
                 /\ r.issues[j].severity = "critical"
                 /\ r.issues[j].affected_activities = <<NegativeMuseum.name>>

\* the issues of result r that come from the cost-distribution check
DistributionIssues(r) ==
    {j \in 1..Len(r.issues) :
        /\ r.issues[j].category = "budget"
        /\ r.issues[j].severity = "low"
        /\ r.issues[j].problem[1] = "Day cost is above average"}

\* day_cost > 1.4 * (total / n) in exact arithmetic
AboveVariance(day_cost, total, n) == day_cost * 10 * n > 14 * total

\* C22: the cost-distribution check raises one low budget issue for exactly
\* the days whose total_cost is greater than 1.4 times the mean of the days'
\* total_cost, in day order, and nothing for a plan without days.
C22_CostDistribution ==
    \A k \in Results :
        LET days == DaysOf(plans[k])
            r == validation_results[k]
            total == SumSeq([d \in 1..Len(days) |-> days[d].total_cost])
        IN /\ \A d \in 1..Len(days) :
                 Cardinality({j \in DistributionIssues(r) :
                                 r.issues[j].day_number
                                     = Num(days[d].day_number)})
                 = IF AboveVariance(days[d].total_cost, total, Len(days))
                   THEN 1 ELSE 0
           /\ \A i, j \in DistributionIssues(r) :
                 i < j => r.issues[i].day_number.value
                              < r.issues[j].day_number.value
           /\ days = <<>> => DistributionIssues(r) = {}

\* the long-duration issues of result r on day d
LongIssues(r, d) ==
    {j \in IssuesOfDay(r, d, LongTemplates) : r.issues[j].severity = "medium"}

\* C23: the timing check raises one medium timing issue for each activity
\* whose duration_hours is greater than 6 and none for an activity of 6 hours
\* or less, whatever count-based and pair-based timing issues the day has.
C23_LongActivity ==
    \A k \in Results :
        \A d \in 1..Len(DaysOf(plans[k])) :
            LET day == DaysOf(plans[k])[d]
                acts == day.activities
                r == validation_results[k]
                Long(m) == acts[m].duration_hours > 6 * 60
            IN /\ IssuesOfDay(r, day.day_number, LongTemplates)
                  = LongIssues(r, day.day_number)
               /\ Cardinality(LongIssues(r, day.day_number))
                  = Cardinality({m \in 1..Len(acts) : Long(m)})
               /\ \A i \in 1..Len(acts) :
                     Cardinality({j \in LongIssues(r, day.day_number) :
                         r.issues[j].affected_activities = <<acts[i].name>>})
                     = Cardinality({m \in 1..Len(acts) :
                           acts[m].name = acts[i].name /\ Long(m)})

\* a validated day of a seven-hour trip overlapping a six-hour park visit: one
\* long-duration issue, for the trip, next to the count and overlap issues
C23_Witness ==
    \E k \in Results :
        LET days == DaysOf(plans[k])
            r == validation_results[k]
        IN /\ Len(days) = 1
           /\ days[1].activities = <<Versailles, Park>>
           /\ Cardinality(LongIssues(r, 1)) = 1
           /\ \E j \in LongIssues(r, 1) :
                 r.issues[j].affected_activities = <<Versailles.name>>
           /\ IssuesOfDay(r, 1, CountTemplates) # {}
           /\ IssuesOfDay(r, 1, {"Activities overlap"}) # {}

\* the source-attribution warnings of a result
SourceWarnings(r) ==
    {j \in 1..Len(r.warnings) :
        r.warnings[j][1] = "Only activities have source attribution"}

\* the activities of a plan, and those with a non-empty source
AllActivities(plan) ==
    UNION {{<<d, m>> : m \in 1..Len(DaysOf(plan)[d].activities)} :
              d \in 1..Len(DaysOf(plan))}

Attributed(plan) ==
    {dm \in AllActivities(plan) :
        DaysOf(plan)[dm[1]].activities[dm[2]].source # ""}

\* C24: the source-attribution warning is emitted exactly when the activities
\* with a non-empty source, counted over all days, are fewer than half of all
\* activities, and it reports both counts; a plan with exactly half of its
\* activities attributed, or without activities, gets no such warning.
C24_SourceWarning ==
    \A k \in Results :
        LET r == validation_results[k]
            total == Cardinality(AllActivities(plans[k]))
            sourced == Cardinality(Attributed(plans[k]))
        IN /\ Cardinality(SourceWarnings(r))
              = IF 2 * sourced < total THEN 1 ELSE 0
           /\ \A j \in SourceWarnings(r) :
                 r.warnings[j]
                     = <<"Only activities have source attribution", sourced,
                         total>>

\* a batch whose first plan has two of its four activities attributed, over
\* two days, and gets no warning, and whose second plan has none of the four
\* attributed and gets the warning with the counts 0 and 4
C24_Witness ==
    /\ Len(validation_results) >= 2
    /\ Cardinality(AllActivities(plans[1])) = 4
    /\ Len(DaysOf(plans[1])) = 2
    /\ Cardinality(Attributed(plans[1])) = 2
    /\ SourceWarnings(validation_results[1]) = {}
    /\ Cardinality(Attributed(plans[2])) = 0
    /\ \E j \in SourceWarnings(validation_results[2]) :
          /\ validation_results[2].warnings[j][2] = 0
          /\ validation_results[2].warnings[j][3] = 4

\* a step of plan_trip that reaches create_plans
PlanTripStarts ==
    /\ pc \in Finished
    /\ clock' = clock + 1
    /\ current_session' # None
    /\ current_session'.session_id = clock + 1

\* C25: create_plans either returns exactly three plans, with plan_id A, B, C
\* in that order and paces packed, moderate, relaxed, or raises: when the
\* generation of one plan fails no shorter list is returned.
C25_ThreePlansOrRaise ==
    [][PlanTripStarts
       => \/ /\ pc' = "raised"
             /\ exception' # NoException
             /\ current_session'.plans = None
          \/ /\ pc' = "loop"
             /\ current_session'.plans = List(plans')
             /\ [i \in 1..Len(plans') |-> plans'[i].plan_id]
                    = <<"A", "B", "C">>
             /\ [i \in 1..Len(plans') |-> plans'[i].pace]
                    = <<"packed", "moderate", "relaxed">>]_vars

\* a trip whose three plans were created and saved, followed by a trip for
\* which the request for one plan failed: create_plans raised and the new
\* session has no plans
C25_Witness ==
    /\ pc = "raised"
    /\ exception = "RequestException"
    /\ current_session # None
    /\ current_session.stage = "planning"
    /\ current_session.plans = None
    /\ \E f \in session_files : f.num_plans = 3

\* the plans of the session that can be handed to refine_plan
Refinable ==
    IF current_session = None THEN {}
    ELSE (IF current_session.plans = None THEN {}
          ELSE {current_session.plans.value[k] :
                   k \in 1..Len(current_session.plans.value)})
         \cup (IF current_session.final_plan = None THEN {}
               ELSE {current_session.final_plan})

\* _apply_changes is reached and its request or the conversion of the answer
\* fails
ApplyFails(plan, run) ==
    /\ \A k \in 1..Len(_parse_feedback(run.feedback)) :
          Describable(_parse_feedback(run.feedback)[k])
    /\ \/ ~run.plan.ok
       \/ _dict_to_plan(run.plan.json, plan.plan_id).raised # NoException

\* C26: when applying the changes fails, refine_plan returns the original
\* plan, with the result of validating the original plan, and appends a
\* history entry with the status and score of the original plan; when parsing
\* the feedback fails the change requests recorded are empty.
C26_FallbackToOriginal ==
    pc \in Finished =>
    \A plan \in Refinable :
        \A run \in RefinementRuns(plan), feedback \in MoreFeedbacks :
            ApplyFails(plan, run)
            => \E call \in {refine_plan(plan, feedback,
                                        current_session.user_requirements,
                                        run, refinement_history, clock + 1)},
                  original \in {_validate_single_plan(plan,
                                   current_session.user_requirements)} :
                  /\ call.raised = NoException
                  /\ call.refined_plan = plan
                  /\ call.validation_result = original.result
                  /\ Len(call.refinement_history)
                         = Len(refinement_history) + 1
                  /\ LET entry == call.refinement_history[
                                      Len(call.refinement_history)]
                     IN /\ entry.validation_status = original.result.status
                        /\ entry.validation_score = original.result.score
                        /\ ~run.feedback.ok => entry.changes = <<>>

\* the session has returned its plan, or refine_plan raised out of it
SessionOver == pc \in {"finalized", "raised"}

\* a step of the session that reads done in any letter case
ReadsDone ==
    /\ pc = "prompt"
    /\ pc' # "prompt" \/ refinement_history' # refinement_history
    /\ user_feedback' # None
    /\ Lower(user_feedback'.value) = Done

\* a step of the session in which a refinement was made
Refines == refinement_history' # refinement_history

\* the step is a call of refine_plan on current_plan with the feedback read
RefinesCurrentPlan ==
    \E run \in RefinementRuns(current_plan) :
        \E call \in {refine_plan(current_plan, user_feedback',
                                 user_requirements, run, refinement_history,
                                 clock + 1)} :
           /\ call.raised = NoException
           /\ current_plan' = call.refined_plan
           /\ refinement_history' = call.refinement_history

\* C27: interactive_refinement_session terminates when every refine_plan
\* call returns; it makes at most max_iterations refinements, stops at the
\* first feedback equal to done in any letter case without refining for it,
\* refines in each round the plan the previous round returned, and returns
\* the last plan obtained, the original plan when no refinement was made.
C27_SessionTerminates ==
    /\ <>SessionOver
    /\ [](/\ Len(refinement_history) <= max_iterations
          /\ Len(refinement_history) = iteration
          /\ refinement_history = <<>> => current_plan = initial_plan)
    /\ [][/\ ReadsDone => /\ pc' = "finalized"
                          /\ ~Refines
                          /\ current_plan' = current_plan
          /\ Refines => RefinesCurrentPlan
          /\ ~Refines => current_plan' = current_plan
          /\ SessionOver => UNCHANGED vars]_vars

\* a session of at most two rounds ended by DONE after one refinement that
\* changed the plan
C27_Witness ==
    /\ pc = "finalized"
    /\ max_iterations = 2
    /\ iteration = 1
    /\ user_feedback = Str(<<"D", "O", "N", "E">>)
    /\ current_plan # initial_plan

\* the position of a stage in the order of the workflow
StageRank(stage) ==
    CASE stage = "research" -> 1
      [] stage = "planning" -> 2
      [] stage = "validation" -> 3
      [] stage = "presentation" -> 4
      [] stage = "refinement" -> 5
      [] stage = "complete" -> 6

\* the step stays within one session
SameSession ==
    /\ current_session # None
    /\ current_session' # None
    /\ current_session'.session_id = current_session.session_id

\* C28: within one session the stage only moves forward through research,
\* planning, validation, presentation, refinement, complete, whatever calls
\* of select_and_refine_plan and continue_refinement follow plan_trip, and
\* whenever the stage is complete the final_plan of the session is set.
C28_StageForward ==
    [][/\ SameSession
          => StageRank(current_session'.stage)
                 >= StageRank(current_session.stage)
       /\ (current_session' # None /\ current_session'.stage = "complete")
          => current_session'.final_plan # None]_vars

\* the issues of a result that come from the budget check
BudgetCheckIssues(r) ==
    {j \in 1..Len(r.issues) :
        r.issues[j].category = "budget" /\ r.issues[j].day_number = None}

\* C29: with no budget in the requirements (it defaults to 0) or a budget
\* of 0, the budget check returns no issue only for a total_cost of 0; for any
\* other total_cost validation stops with ZeroDivisionError instead of an
\* issue, so the plan gets no result and validate_plans returns nothing.
C29_ZeroBudget ==
    [][/\ pc = "raised" => pc' = "raised"
       /\ (pc = "loop" /\ idx <= Len(plans) /\ Budget = 0)
       => /\ plans[idx].total_cost # 0
             => /\ pc' = "raised"
                /\ exception' = "ZeroDivisionError"
                /\ validation_results' = validation_results
          /\ plans[idx].total_cost = 0 /\ pc' = "loop"
             => /\ Len(validation_results') = Len(validation_results) + 1
                /\ BudgetCheckIssues(validation_results'[idx]) = {}]_vars

\* a batch validated without a budget: the first plan costs nothing and has
\* its result, without a budget issue; the second costs 1000 and stops
\* validate_plans with ZeroDivisionError
C29_Witness ==
    /\ pc = "raised"
    /\ exception = "ZeroDivisionError"
    /\ "budget" \notin DOMAIN user_requirements
    /\ idx = 2
    /\ plans[1].total_cost = 0
    /\ plans[2].total_cost = 1000
    /\ Len(validation_results) = 1
    /\ BudgetCheckIssues(validation_results[1]) = {}

\* C30: a validation result has score 100 exactly when it has no issue: every
\* issue has a severity with a positive penalty, so a result with an issue
\* scores at most 98, one with status NEEDS_REVISION at most 80 and one with
\* status APPROVED_WITH_WARNINGS at most 90.
C30_ScoreAndIssues ==
    \A k \in Results :
        LET r == validation_results[k]
        IN /\ r.score = 100 <=> r.issues = <<>>
           /\ \A j \in 1..Len(r.issues) :
                 r.issues[j].severity \in {"critical", "high", "medium", "low"}
           /\ r.issues # <<>> => r.score <= 98
           /\ r.status = "NEEDS_REVISION" => r.score <= 80
           /\ r.status = "APPROVED_WITH_WARNINGS" => r.score <= 90

\* a batch with a result without issues scoring 100, a NEEDS_REVISION result
\* with one critical issue scoring 80 and an APPROVED_WITH_WARNINGS result
C30_Witness ==
    /\ pc = "returned"
    /\ Len(validation_results) = 3
    /\ validation_results[1].issues = <<>>
    /\ validation_results[1].score = 100
    /\ validation_results[2].status = "NEEDS_REVISION"
    /\ Len(validation_results[2].issues) = 1
    /\ validation_results[2].score = 80
    /\ validation_results[3].status = "APPROVED_WITH_WARNINGS"
    /\ validation_results[3].score <= 90

====
